---- MODULE Spec2Model ----
EXTENDS Integers, Sequences, FiniteSets, TLC

(***************************************************************************)
(* A model of two components of the toolchain:                             *)
(*   - LintContext (crates/oxc_linter/src/context.rs)                      *)
(*   - Codegen     (crates/oxc_codegen/src/lib.rs)                         *)
(* Rust values are modelled as follows: a struct is a record, Option<T> is *)
(* a sequence of length at most one (<<>> is None, <<v>> is Some(v)), a    *)
(* Vec<T> is a sequence, a byte of the output buffer is a one-symbol       *)
(* string.  Methods that take `self` or `&mut self` are operators from the *)
(* receiver to the new receiver.                                           *)
(***************************************************************************)

VARIABLES
    ctx_state,   \* "none" | "live" | "panicked" | "consumed": life of the LintContext
    ctx,         \* the LintContext
    messages,    \* the vector returned by into_message
    reported,    \* history: every report made through diagnostic / diagnostic_with_fix
    last_call,   \* history: the most recent call on the context and what it did
    applied_severity,  \* history: Some(S) once with_severity(S) was called, the last S
    cloned,      \* the clone made of the LintContext, None while there is none
    codegen,     \* the Codegen
    gen_pc,      \* the node being printed and the step it is at, None between nodes
    pos,         \* what the grammar allows next in the expression being printed
    op_run,      \* history: the operators printed back to back, and where they lie
    stack,       \* the calls of the statement printer still to be made, the next one first
    building,    \* Some(program) from the call of build on, None before
    returned,    \* what into_source_text or build returned, None before
    called,      \* history: the latest call, its arguments and the Codegen before it
    indents_since  \* history: the calls of print_indent since print_body set the flag

lint_vars == <<ctx_state, ctx, messages, reported, last_call, applied_severity, cloned>>

codegen_vars == <<codegen, gen_pc, pos, op_run>>

printer_vars == <<stack, building, returned, called, indents_since>>

vars == <<lint_vars, codegen_vars, printer_vars>>

\* bounds of the model
MaxReports == 2
MaxCode == 6

None == <<>>
Some(v) == <<v>>

(***************************************************************************)
(* Input domains of the lint context.                                      *)
(***************************************************************************)
RuleNames == {"no-debugger"}
Spans == {<<0, 2>>, <<2, 4>>}
AllowWarnDeny == {"Allow", "Warn", "Deny"}

\* the severities rules are run with: a rule that is allowed is not run
RunSeverities == {"Warn", "Deny"}
Severities == {"Advice", "Warning", "Error"}

\* the text of the file being linted, one symbol per byte
SourceText == <<"a", "b", "c", "d">>

\* the disable-directive indexes a file may produce: sets of (rule, span)
DirectiveIndexes == { {}, {<<"no-debugger", <<0, 2>>>>} }

\* globals by environment name (javascript_globals::GLOBALS); "bogus" has no entry
GLOBALS ==
    [ e \in {"builtin", "browser", "node"} |->
        CASE e = "builtin" -> {"Array", "Object"}
          [] e = "browser" -> {"window", "document"}
          [] e = "node"    -> {"process", "window"} ]

EnvNames == {"builtin", "browser", "node", "bogus"}
VarNames == {"Array", "window", "process", "document", "foo"}

\* OxlintEnv: environment name -> enabled?
OxlintEnvs == UNION { [S -> BOOLEAN] : S \in SUBSET EnvNames }

\* OxlintConfig::default(): only `builtin` is switched on
OxlintConfig_default == [env |-> [e \in {"builtin"} |-> TRUE]]

(***************************************************************************)
(* Fixes (crate::fixer): a Fix replaces a byte range of the source by new  *)
(* content; a CompositeFix is none, one or several fixes.                  *)
(***************************************************************************)
Fix_new(content, span) == [content |-> content, span |-> span]

Fix_empty == Fix_new(<<>>, <<0, 0>>)

\* &source_text[a..b], None when the range is out of bounds
text_get(text, a, b) ==
    IF a <= b /\ b <= Len(text) THEN Some(SubSeq(text, a + 1, b)) ELSE None

\* Span's derived ordering: by start, then by end
span_le(a, b) == a[1] < b[1] \/ (a[1] = b[1] /\ a[2] <= b[2])

RECURSIVE insert_by_span(_, _)
insert_by_span(f, sorted) ==
    IF sorted = <<>> THEN <<f>>
    ELSE IF span_le(f.span, Head(sorted).span) THEN <<f>> \o sorted
    ELSE <<Head(sorted)>> \o insert_by_span(f, Tail(sorted))

RECURSIVE sort_by_span(_)
sort_by_span(fixes) ==
    IF fixes = <<>> THEN <<>>
    ELSE insert_by_span(Head(fixes), sort_by_span(Tail(fixes)))

\* the loop of merge_fixes over the sorted fixes: None when a fix is invalid
RECURSIVE merge_loop(_, _, _, _)
merge_loop(fixes, last_pos, output, source_text) ==
    IF fixes = <<>> THEN Some([last_pos |-> last_pos, output |-> output])
    ELSE LET fix == Head(fixes)
             before == text_get(source_text, last_pos, fix.span[1])
         IN  IF fix.span[1] > fix.span[2] THEN None
             ELSE IF last_pos > fix.span[1] THEN None
             ELSE IF before = None THEN None
             ELSE merge_loop(Tail(fixes), fix.span[2],
                             output \o before[1] \o fix.content, source_text)

merge_fixes(fixes, source_text) ==
    IF fixes = <<>> THEN Fix_empty
    ELSE IF Len(fixes) = 1 THEN fixes[1]
    ELSE LET sorted == sort_by_span(fixes)
             start == sorted[1].span[1]
             end == sorted[Len(sorted)].span[2]
             done == merge_loop(sorted, start, <<>>, source_text)
         IN  IF done = None THEN Fix_empty
             ELSE LET after == text_get(source_text, done[1].last_pos, end)
                  IN  IF after = None THEN Fix_empty
                      ELSE Fix_new(done[1].output \o after[1], <<start, end>>)

normalize_fixes(composite_fix, source_text) ==
    CASE composite_fix.kind = "Single" -> composite_fix.fixes[1]
      [] composite_fix.kind = "Multiple" -> merge_fixes(composite_fix.fixes, source_text)
      [] composite_fix.kind = "None" -> Fix_empty

FixA == Fix_new(<<"X">>, <<2, 3>>)
FixB == Fix_new(<<"Y">>, <<0, 1>>)

\* what a rule's fix closure may return
CompositeFixes ==
    { [kind |-> "None", fixes |-> <<>>],
      [kind |-> "Single", fixes |-> <<FixA>>],
      [kind |-> "Multiple", fixes |-> <<FixA, FixB>>] }

(***************************************************************************)
(* Diagnostics and messages.                                               *)
(***************************************************************************)
\* OxcDiagnostic::with_severity
error_with_severity(error, severity) == [error EXCEPT !.severity = severity]

Message_new(error, fix) == [error |-> error, fix |-> fix]

Message_span(message) == message.error.span

\* Severity::from(AllowWarnDeny)
Severity_from(value) ==
    CASE value = "Allow" -> "Advice"
      [] value = "Warn" -> "Warning"
      [] value = "Deny" -> "Error"

DisableDirectives_contains(directives, rule_name, span) ==
    <<rule_name, span>> \in directives

\* DisableDirectivesBuilder::new(source_text, trivias).build()
DisableDirectivesBuilder_build(semantic) == semantic.directives

\* the semantic models a file may have: with or without a control flow graph
Semantics ==
    [cfg : {None, Some("cfg")}, source_text : {SourceText}, directives : DirectiveIndexes]

(***************************************************************************)
(* LintContext                                                             *)
(***************************************************************************)
\* mutant: the constructor does not check for the control flow graph
new_assertion_missing(semantic) == TRUE

\* the assertion of LintContext::new
new_assertion(semantic) == semantic.cfg # None

LintContext_new(semantic) ==
    [ semantic |-> semantic,
      diagnostics |-> <<>>,
      disable_directives |-> DisableDirectivesBuilder_build(semantic),
      fix |-> FALSE,
      eslint_config |-> OxlintConfig_default,
      current_rule_name |-> "",
      severity |-> "Warning" ]

with_fix(self, fix) == [self EXCEPT !.fix = fix]

with_eslint_config(self, eslint_config) == [self EXCEPT !.eslint_config = eslint_config]

with_rule_name(self, name) == [self EXCEPT !.current_rule_name = name]

with_severity(self, severity) == [self EXCEPT !.severity = Severity_from(severity)]

\* cfg(): unwrap_unchecked is undefined behaviour on None, any outcome may follow
cfg_outcomes(self) ==
    IF self.semantic.cfg # None THEN {self.semantic.cfg[1]} ELSE {"garbage", "crash"}

source_text(self) == self.semantic.source_text

\* OxlintEnv::iter: the names of the environments that are switched on
OxlintEnv_iter(env) == {e \in DOMAIN env : env[e]}

RECURSIVE env_loop(_, _)
env_loop(envs, var) ==
    IF envs = {} THEN FALSE
    ELSE LET env == CHOOSE e \in envs : TRUE
         IN  IF env \in DOMAIN GLOBALS /\ var \in GLOBALS[env] THEN TRUE
             ELSE env_loop(envs \ {env}, var)

\* mutant: the `builtin` globals are not consulted
env_contains_var_no_builtin(self, var) ==
    env_loop(OxlintEnv_iter(self.eslint_config.env), var)

env_contains_var(self, var) ==
    IF var \in GLOBALS["builtin"] THEN TRUE
    ELSE env_loop(OxlintEnv_iter(self.eslint_config.env), var)

into_message(self) == self.diagnostics

\* mutant: the disable directives are not consulted
add_diagnostic_unchecked(self, message) ==
    LET overridden ==
            IF message.error.severity # self.severity
            THEN [message EXCEPT !.error = error_with_severity(@, self.severity)]
            ELSE message
    IN  [self EXCEPT !.diagnostics = Append(@, overridden)]

\* mutant: the severity the rule gave is kept
add_diagnostic_no_override(self, message) ==
    IF ~DisableDirectives_contains(self.disable_directives, self.current_rule_name,
                                   Message_span(message))
    THEN [self EXCEPT !.diagnostics = Append(@, message)]
    ELSE self

\* mutant: the new message is put in front of the vector
add_diagnostic_in_front(self, message) ==
    IF ~DisableDirectives_contains(self.disable_directives, self.current_rule_name,
                                   Message_span(message))
    THEN LET overridden ==
                 IF message.error.severity # self.severity
                 THEN [message EXCEPT !.error = error_with_severity(@, self.severity)]
                 ELSE message
         IN  [self EXCEPT !.diagnostics = <<overridden>> \o @]
    ELSE self

add_diagnostic(self, message) ==
    IF ~DisableDirectives_contains(self.disable_directives, self.current_rule_name,
                                   Message_span(message))
    THEN LET overridden ==
                 IF message.error.severity # self.severity
                 THEN [message EXCEPT !.error = error_with_severity(@, self.severity)]
                 ELSE message
         IN  [self EXCEPT !.diagnostics = Append(@, overridden)]
    ELSE self

diagnostic(self, diagnostic_) == add_diagnostic(self, Message_new(diagnostic_, None))

\* mutant: the directives are consulted first and no fix is computed for a
\* diagnostic they suppress
diagnostic_with_fix_lazy(self, diagnostic_, fix) ==
    IF DisableDirectives_contains(self.disable_directives, self.current_rule_name,
                                  diagnostic_.span)
    THEN [ctx |-> self, invoked |-> 0]
    ELSE IF self.fix
         THEN [ctx |-> add_diagnostic(self, Message_new(diagnostic_,
                                          Some(normalize_fixes(fix, source_text(self))))),
               invoked |-> 1]
         ELSE [ctx |-> diagnostic(self, diagnostic_), invoked |-> 0]

\* mutant: the fix is computed whether or not fix mode is on
diagnostic_with_fix_always(self, diagnostic_, fix) ==
    [ctx |-> add_diagnostic(self, Message_new(diagnostic_,
                                Some(normalize_fixes(fix, source_text(self))))),
     invoked |-> 1]

\* the closure `fix` is modelled by the CompositeFix it returns; `invoked` counts its calls
diagnostic_with_fix(self, diagnostic_, fix) ==
    IF self.fix
    THEN LET composite_fix == fix
             fix_ == normalize_fixes(composite_fix, source_text(self))
         IN  [ctx |-> add_diagnostic(self, Message_new(diagnostic_, Some(fix_))),
              invoked |-> 1]
    ELSE [ctx |-> diagnostic(self, diagnostic_), invoked |-> 0]

(***************************************************************************)
(* Codegen: the bytes of the output buffer.  An ASCII byte is written as   *)
(* its character; "C3" "A9" are the two bytes of U+00E9.                   *)
(***************************************************************************)
LeadBytes == {"C3"}
ContinuationBytes == {"A9"}

\* str::chars over the buffer: the characters, each as its bytes.  The buffer
\* holds UTF-8 in every state of the specifications below.
RECURSIVE Chars(_)
Chars(bytes) ==
    IF bytes = <<>> THEN <<>>
    ELSE IF Head(bytes) \in LeadBytes /\ Len(bytes) >= 2 /\ bytes[2] \in ContinuationBytes
         THEN <<SubSeq(bytes, 1, 2)>> \o Chars(SubSeq(bytes, 3, Len(bytes)))
         ELSE <<<<Head(bytes)>>>> \o Chars(Tail(bytes))

\* oxc_syntax::identifier::is_identifier_part over the characters of the model
is_identifier_part(ch) ==
    ch \in {<<"x">>, <<"a">>, <<"i">>, <<"n">>, <<"v">>, <<"o">>, <<"d">>,
            <<"$">>, <<"_">>, <<"1">>, <<"C3", "A9">>}

(***************************************************************************)
(* Operators (crate::operator::Operator and oxc_syntax::operator).         *)
(***************************************************************************)
Operator(kind, op) == [kind |-> kind, op |-> op]

BinaryOperators ==
    {"Equality", "Inequality", "StrictEquality", "StrictInequality", "LessThan",
     "LessEqualThan", "GreaterThan", "GreaterEqualThan", "ShiftLeft", "ShiftRight",
     "ShiftRightZeroFill", "Addition", "Subtraction", "Multiplication", "Division",
     "Remainder", "BitwiseOR", "BitwiseXOR", "BitwiseAnd", "In", "Exponential"}

UnaryOperators == {"UnaryNegation", "UnaryPlus", "LogicalNot", "BitwiseNot", "Void"}

UpdateOperators == {"Increment", "Decrement"}

\* BinaryOperator::as_str, UnaryOperator::as_str, UpdateOperator::as_str
binary_as_str(op) ==
    CASE op = "Equality" -> <<"=", "=">>
      [] op = "Inequality" -> <<"!", "=">>
      [] op = "StrictEquality" -> <<"=", "=", "=">>
      [] op = "StrictInequality" -> <<"!", "=", "=">>
      [] op = "LessThan" -> <<"<">>
      [] op = "LessEqualThan" -> <<"<", "=">>
      [] op = "GreaterThan" -> <<">">>
      [] op = "GreaterEqualThan" -> <<">", "=">>
      [] op = "ShiftLeft" -> <<"<", "<">>
      [] op = "ShiftRight" -> <<">", ">">>
      [] op = "ShiftRightZeroFill" -> <<">", ">", ">">>
      [] op = "Addition" -> <<"+">>
      [] op = "Subtraction" -> <<"-">>
      [] op = "Multiplication" -> <<"*">>
      [] op = "Division" -> <<"/">>
      [] op = "Remainder" -> <<"%">>
      [] op = "BitwiseOR" -> <<"|">>
      [] op = "BitwiseXOR" -> <<"^">>
      [] op = "BitwiseAnd" -> <<"&">>
      [] op = "In" -> <<"i", "n">>
      [] op = "Exponential" -> <<"*", "*">>

unary_as_str(op) ==
    CASE op = "UnaryNegation" -> <<"-">>
      [] op = "UnaryPlus" -> <<"+">>
      [] op = "LogicalNot" -> <<"!">>
      [] op = "BitwiseNot" -> <<"~">>
      [] op = "Void" -> <<"v", "o", "i", "d">>

update_as_str(op) ==
    CASE op = "Increment" -> <<"+", "+">>
      [] op = "Decrement" -> <<"-", "-">>

as_str(operator) ==
    CASE operator.kind = "Binary" -> binary_as_str(operator.op)
      [] operator.kind = "Unary" -> unary_as_str(operator.op)
      [] operator.kind = "Update" -> update_as_str(operator.op)

\* BinaryOperator::is_keyword, UnaryOperator::is_keyword
is_keyword(operator) == operator.op \in {"In", "Void"}

(***************************************************************************)
(* Codegen                                                                 *)
(***************************************************************************)
CodegenOptions_default ==
    [ single_quote |-> FALSE,
      minify |-> FALSE,
      comments |-> TRUE,
      annotation_comments |-> FALSE,
      source_map_path |-> None ]

\* CommentsMap::default(): no comment is indexed
CommentsMap_default == {}

Codegen_new ==
    [ options |-> CodegenOptions_default,
      code |-> <<>>,
      needs_semicolon |-> FALSE,
      need_space_before_dot |-> 0,
      print_next_indent_as_space |-> FALSE,
      prev_op_end |-> 0,
      prev_reg_exp_end |-> 0,
      prev_op |-> None,
      indent |-> 0,
      source_text |-> <<>>,
      comments |-> CommentsMap_default,
      mangler |-> None,
      quote |-> "\"",
      sourcemap_builder |-> None ]

with_options(self, options) ==
    [self EXCEPT !.quote = IF options.single_quote THEN "'" ELSE "\"",
                 !.options = options]

with_mangler(self, mangler) == [self EXCEPT !.mangler = mangler]

print_char(self, ch) == [self EXCEPT !.code = Append(@, ch)]

print_str(self, s) == [self EXCEPT !.code = @ \o s]

code_len(self) == Len(self.code)

print_soft_space(self) == IF ~self.options.minify THEN print_char(self, " ") ELSE self

print_hard_space(self) == print_char(self, " ")

\* mutant: the newline is printed under minify too
print_soft_newline_always(self) == print_char(self, "\n")

print_soft_newline(self) == IF ~self.options.minify THEN print_char(self, "\n") ELSE self

print_hard_newline(self) == print_char(self, "\n")

print_semicolon(self) == print_char(self, ";")

\* `indent` and `dedent`.  The counter is a u32; the model keeps it far below 2^32,
\* and the calls are paired, so that `indent -= 1` is never reached at 0.
indent(self) == IF ~self.options.minify THEN [self EXCEPT !.indent = @ + 1] ELSE self

dedent(self) == IF ~self.options.minify THEN [self EXCEPT !.indent = @ - 1] ELSE self

\* mutant: the flag is not cleared by the space it turns the indentation into
print_indent_keeps_flag(self) ==
    IF self.options.minify THEN self
    ELSE IF self.print_next_indent_as_space THEN print_hard_space(self)
    ELSE print_str(self, [i \in 1..self.indent |-> "\t"])

print_indent(self) ==
    IF self.options.minify THEN self
    ELSE IF self.print_next_indent_as_space
         THEN [print_hard_space(self) EXCEPT !.print_next_indent_as_space = FALSE]
    ELSE print_str(self, [i \in 1..self.indent |-> "\t"])

\* mutant: the semicolon is owed without minify too
print_semicolon_after_statement_deferred(self) == [self EXCEPT !.needs_semicolon = TRUE]

\* mutant: the semicolon that was owed is printed and still owed
print_semicolon_if_needed_keeps_flag(self) ==
    IF self.needs_semicolon THEN print_semicolon(self) ELSE self

\* mutant: the semicolon is printed at once under minify too
print_semicolon_after_statement_eager(self) == print_str(self, <<";", "\n">>)

print_semicolon_after_statement(self) ==
    IF self.options.minify THEN [self EXCEPT !.needs_semicolon = TRUE]
    ELSE print_str(self, <<";", "\n">>)

print_semicolon_if_needed(self) ==
    IF self.needs_semicolon
    THEN [print_semicolon(self) EXCEPT !.needs_semicolon = FALSE]
    ELSE self

\* SourcemapBuilder: the mappings added so far, each from the offset in the output
\* to the offset in the source, with the name it carries
SourcemapBuilder_new(path, text) == [path |-> path, mappings |-> <<>>]

SourcemapBuilder_add_source_mapping(builder, code, position, name) ==
    [builder EXCEPT !.mappings =
        Append(@, [generated |-> Len(code), original |-> position, name |-> name])]

SourcemapBuilder_into_sourcemap(builder) == [file |-> builder.path, mappings |-> builder.mappings]

\* mutant: a mapping is recorded whether or not a source map was asked for
add_source_mapping_always(self, position) ==
    LET builder == IF self.sourcemap_builder # None THEN self.sourcemap_builder[1]
                   ELSE SourcemapBuilder_new(<<>>, self.source_text)
    IN  [self EXCEPT !.sourcemap_builder =
            Some(SourcemapBuilder_add_source_mapping(builder, self.code, position, None))]

add_source_mapping(self, position) ==
    IF self.sourcemap_builder # None
    THEN [self EXCEPT !.sourcemap_builder =
            Some(SourcemapBuilder_add_source_mapping(@[1], self.code, position, None))]
    ELSE self

add_source_mapping_for_name(self, span, name) ==
    IF self.sourcemap_builder # None
    THEN [self EXCEPT !.sourcemap_builder =
            Some(SourcemapBuilder_add_source_mapping(@[1], self.code, span[1], Some(name)))]
    ELSE self

\* mutant: the level is not taken back before the closing brace
print_block_end_no_dedent(self, position) ==
    print_char(add_source_mapping(print_indent(self), position), "}")

print_block_start(self, position) ==
    indent(print_soft_newline(print_char(add_source_mapping(self, position), "{")))

print_block_end(self, position) ==
    print_char(add_source_mapping(print_indent(dedent(self)), position), "}")

\* Mangler: the symbol table after renaming.  `symbol_of` resolves a reference to
\* its symbol (None: it resolves to none), `renamed` holds the new name of every
\* symbol that was renamed, `original` the declared name of every symbol.
Mangler_get_symbol_name(mangler, symbol_id) ==
    IF mangler.renamed[symbol_id] # None
    THEN mangler.renamed[symbol_id][1]
    ELSE mangler.original[symbol_id]

Mangler_get_reference_name(mangler, reference_id) ==
    IF mangler.symbol_of[reference_id] # None
    THEN Some(Mangler_get_symbol_name(mangler, mangler.symbol_of[reference_id][1]))
    ELSE None

\* mutant: the mangler is not consulted
get_identifier_reference_name_original(self, reference) == reference.name

get_identifier_reference_name(self, reference) ==
    LET renamed ==
            IF self.mangler # None /\ reference.reference_id # None
            THEN Mangler_get_reference_name(self.mangler[1], reference.reference_id[1])
            ELSE None
    IN  IF renamed # None THEN renamed[1] ELSE reference.name

get_binding_identifier_name(self, ident) ==
    IF self.mangler # None /\ ident.symbol_id # None
    THEN Mangler_get_symbol_name(self.mangler[1], ident.symbol_id[1])
    ELSE ident.name

\* whether the bytes are UTF-8
RECURSIVE is_utf8(_)
is_utf8(bytes) ==
    IF bytes = <<>> THEN TRUE
    ELSE IF Head(bytes) \in LeadBytes
         THEN /\ Len(bytes) >= 2
              /\ bytes[2] \in ContinuationBytes
              /\ is_utf8(SubSeq(bytes, 3, Len(bytes)))
    ELSE IF Head(bytes) \in ContinuationBytes THEN FALSE
    ELSE is_utf8(Tail(bytes))

\* into_source_text: String::from_utf8_unchecked(mem::take(&mut self.code)).  On bytes
\* that are not UTF-8 the behaviour is undefined: a String that is not UTF-8 is
\* returned, or the process crashes.
into_source_text_outcomes(self) ==
    LET taken == [self EXCEPT !.code = <<>>]
    IN  IF is_utf8(self.code)
        THEN {[self |-> taken, string |-> Some(self.code), ub |-> FALSE]}
        ELSE {[self |-> taken, string |-> Some(self.code), ub |-> TRUE],
              [self |-> taken, string |-> None, ub |-> TRUE]}

\* mutant: minify does not suppress the comments
print_annotation_comments_minified(options) == options.comments \/ options.annotation_comments

print_annotation_comments(options) ==
    ~options.minify /\ (options.comments \/ options.annotation_comments)

\* chars().nth_back(n)
peek_nth(self, n) ==
    LET chars == Chars(self.code)
    IN  IF n < Len(chars) THEN Some(chars[Len(chars) - n]) ELSE None

\* mutant: the tail of a regular expression is not looked at
print_space_before_identifier_no_regexp(self) ==
    LET last == peek_nth(self, 0)
    IN  IF last # None /\ is_identifier_part(last[1])
        THEN print_hard_space(self)
        ELSE self

print_space_before_identifier(self) ==
    LET last == peek_nth(self, 0)
    IN  IF last # None
           /\ (is_identifier_part(last[1]) \/ self.prev_reg_exp_end = Len(self.code))
        THEN print_hard_space(self)
        ELSE self

bin_op_add == Operator("Binary", "Addition")
bin_op_sub == Operator("Binary", "Subtraction")
un_op_pos == Operator("Unary", "UnaryPlus")
un_op_pre_inc == Operator("Update", "Increment")
un_op_neg == Operator("Unary", "UnaryNegation")
un_op_pre_dec == Operator("Update", "Decrement")
un_op_post_dec == Operator("Update", "Decrement")
bin_op_gt == Operator("Binary", "GreaterThan")
un_op_not == Operator("Unary", "LogicalNot")

\* mutant: the `<` is looked for in the last character, not the one before it
print_space_before_operator_peek0(self, next) ==
    IF self.prev_op_end # Len(self.code) THEN self
    ELSE IF self.prev_op = None THEN self
    ELSE LET prev == self.prev_op[1]
         IN  IF \/ /\ (prev = bin_op_add \/ prev = un_op_pos)
                   /\ (next = bin_op_add \/ next = un_op_pos \/ next = un_op_pre_inc)
                \/ /\ (prev = bin_op_sub \/ prev = un_op_neg)
                   /\ (next = bin_op_sub \/ next = un_op_neg \/ next = un_op_pre_dec)
                \/ (prev = un_op_post_dec /\ next = bin_op_gt)
                \/ (prev = un_op_not /\ next = un_op_pre_dec
                    /\ peek_nth(self, 0) = Some(<<"<">>))
             THEN print_hard_space(self)
             ELSE self

print_space_before_operator(self, next) ==
    IF self.prev_op_end # Len(self.code) THEN self
    ELSE IF self.prev_op = None THEN self
    ELSE LET prev == self.prev_op[1]
         IN  IF \/ /\ (prev = bin_op_add \/ prev = un_op_pos)
                   /\ (next = bin_op_add \/ next = un_op_pos \/ next = un_op_pre_inc)
                \/ /\ (prev = bin_op_sub \/ prev = un_op_neg)
                   /\ (next = bin_op_sub \/ next = un_op_neg \/ next = un_op_pre_dec)
                \/ (prev = un_op_post_dec /\ next = bin_op_gt)
                \/ (prev = un_op_not /\ next = un_op_pre_dec
                    /\ peek_nth(self, 1) = Some(<<"<">>))
             THEN print_hard_space(self)
             ELSE self

(***************************************************************************)
(* The callers of the spacing primitives (crate::gen, binary_expr_visitor) *)
(***************************************************************************)
\* the operator itself: its text, then prev_op and prev_op_end
gen_operator(self, operator) ==
    LET printed == print_str(self, as_str(operator))
    IN  [printed EXCEPT !.prev_op = Some(operator), !.prev_op_end = Len(printed.code)]

\* a regular expression literal /a/
gen_reg_exp(self) ==
    LET last == peek_nth(self, 0)
        spaced == IF last = Some(<<"/">>) THEN print_hard_space(self) ELSE self
        printed == print_str(spaced, <<"/", "a", "/">>)
    IN  [printed EXCEPT !.prev_reg_exp_end = Len(printed.code)]

(***************************************************************************)
(* Printing one expression as a state machine.  The nodes of the expression*)
(* are printed left to right; each node is printed by a fixed sequence of  *)
(* calls, and every call is one step.                                      *)
(***************************************************************************)
NoOperator == Operator("", "")

Node(kind, operator, name) == [kind |-> kind, operator |-> operator, name |-> name]

IdentifierNames == {<<"x">>, <<"C3", "A9">>}

Nodes ==
    {Node("binary", Operator("Binary", op), <<>>) : op \in BinaryOperators}
    \cup {Node("unary", Operator("Unary", op), <<>>) : op \in UnaryOperators}
    \cup {Node(kind, Operator("Update", op), <<>>) :
            kind \in {"prefix", "postfix"}, op \in UpdateOperators}
    \cup {Node("identifier", NoOperator, name) : name \in IdentifierNames}
    \cup {Node("regexp", NoOperator, <<"/", "a", "/">>)}

\* the calls that print a node, in order
Steps(node) ==
    CASE node.kind = "binary" /\ ~is_keyword(node.operator) ->
            <<"soft_space", "space_before_operator", "operator", "soft_space">>
      [] node.kind = "binary" /\ is_keyword(node.operator) ->
            <<"soft_space", "space_before_identifier", "keyword", "soft_space">>
      [] node.kind = "unary" /\ ~is_keyword(node.operator) ->
            <<"space_before_operator", "operator">>
      [] node.kind = "unary" /\ is_keyword(node.operator) ->
            <<"space_before_identifier", "keyword", "soft_space">>
      [] node.kind \in {"prefix", "postfix"} -> <<"space_before_operator", "operator">>
      [] node.kind = "identifier" -> <<"space_before_identifier", "name">>
      [] node.kind = "regexp" -> <<"reg_exp">>

Lexeme(node) == IF node.operator = NoOperator THEN node.name ELSE as_str(node.operator)

\* the most bytes the steps of a node can add to the buffer
MaxBytes(node) ==
    Len(Lexeme(node))
    + Cardinality({i \in 1..Len(Steps(node)) :
          \/ Steps(node)[i] \in {"space_before_operator", "space_before_identifier",
                                 "reg_exp"}
          \/ Steps(node)[i] = "soft_space" /\ ~codegen.options.minify})

\* the kinds of node that may come next: a prefix operator or an operand where an
\* operand is expected, a binary or postfix operator after an operand
StartableKinds ==
    CASE pos = "operand" -> {"unary", "prefix", "identifier", "regexp"}
      [] pos = "lhs" -> {"identifier"}
      [] pos = "ident" -> {"binary", "postfix"}
      [] pos = "value" -> {"binary"}

NextPos(node) ==
    CASE node.kind \in {"binary", "unary"} -> "operand"
      [] node.kind = "prefix" -> "lhs"
      [] node.kind = "identifier" -> IF pos = "lhs" THEN "value" ELSE "ident"
      [] node.kind \in {"postfix", "regexp"} -> "value"

\* the node being printed with the step it is at, or the nodes that may be begun
Current ==
    IF gen_pc # None
    THEN {[node |-> gen_pc[1].node, at |-> gen_pc[1].at]}
    ELSE {[node |-> n, at |-> 1] :
            n \in {m \in Nodes : /\ m.kind \in StartableKinds
                                 /\ Len(codegen.code) + MaxBytes(m) <= MaxCode}}

Advance(node, i, adjacent) ==
    IF i = Len(Steps(node))
    THEN gen_pc' = None /\ pos' = NextPos(node)
    ELSE gen_pc' = Some([node |-> node, at |-> i + 1, adjacent |-> adjacent]) /\ pos' = pos

Adjacent == IF gen_pc = None THEN FALSE ELSE gen_pc[1].adjacent

NoRun == [ops |-> <<>>, begins |-> <<>>, end |-> 0]

NoCalled == [op |-> "", arg |-> <<>>, before |-> Codegen_new, entry |-> None]

PrinterIdle ==
    /\ stack = <<>>
    /\ building = None
    /\ returned = None
    /\ called = NoCalled
    /\ indents_since = None

CodegenIdle ==
    /\ PrinterIdle
    /\ codegen = Codegen_new
    /\ gen_pc = None
    /\ pos = "operand"
    /\ op_run = NoRun

WithOptions(options) ==
    /\ codegen.code = <<>>
    /\ gen_pc = None
    /\ building = None
    /\ called.op = ""
    /\ codegen' = with_options(codegen, options)
    /\ UNCHANGED <<gen_pc, pos, op_run>>
    /\ UNCHANGED lint_vars
    /\ UNCHANGED printer_vars

PrintSoftSpace ==
    /\ \E cur \in Current :
          /\ Steps(cur.node)[cur.at] = "soft_space"
          /\ Advance(cur.node, cur.at, FALSE)
    /\ codegen' = print_soft_space(codegen)
    /\ UNCHANGED op_run
    /\ UNCHANGED lint_vars
    /\ UNCHANGED printer_vars

PrintSpaceBeforeOperator ==
    /\ \E cur \in Current :
          /\ Steps(cur.node)[cur.at] = "space_before_operator"
          /\ codegen' = print_space_before_operator(codegen, cur.node.operator)
          /\ Advance(cur.node, cur.at, op_run.ops # <<>> /\ op_run.end = Len(codegen.code))
    /\ UNCHANGED op_run
    /\ UNCHANGED lint_vars
    /\ UNCHANGED printer_vars

PrintOperator ==
    /\ \E cur \in Current :
          /\ Steps(cur.node)[cur.at] = "operator"
          /\ codegen' = gen_operator(codegen, cur.node.operator)
          /\ op_run' =
                IF Adjacent
                THEN [ops |-> Append(op_run.ops, cur.node.operator),
                      begins |-> Append(op_run.begins, Len(codegen.code)),
                      end |-> Len(codegen'.code)]
                ELSE [ops |-> <<cur.node.operator>>,
                      begins |-> <<Len(codegen.code)>>,
                      end |-> Len(codegen'.code)]
          /\ Advance(cur.node, cur.at, FALSE)
    /\ UNCHANGED lint_vars
    /\ UNCHANGED printer_vars

PrintSpaceBeforeIdentifier ==
    /\ \E cur \in Current :
          /\ Steps(cur.node)[cur.at] = "space_before_identifier"
          /\ Advance(cur.node, cur.at, FALSE)
    /\ codegen' = print_space_before_identifier(codegen)
    /\ UNCHANGED op_run
    /\ UNCHANGED lint_vars
    /\ UNCHANGED printer_vars

PrintKeyword ==
    /\ \E cur \in Current :
          /\ Steps(cur.node)[cur.at] = "keyword"
          /\ codegen' = print_str(codegen, as_str(cur.node.operator))
          /\ Advance(cur.node, cur.at, FALSE)
    /\ UNCHANGED op_run
    /\ UNCHANGED lint_vars
    /\ UNCHANGED printer_vars

PrintName ==
    /\ \E cur \in Current :
          /\ Steps(cur.node)[cur.at] = "name"
          /\ codegen' = print_str(codegen, cur.node.name)
          /\ Advance(cur.node, cur.at, FALSE)
    /\ UNCHANGED op_run
    /\ UNCHANGED lint_vars
    /\ UNCHANGED printer_vars

PrintRegExp ==
    /\ \E cur \in Current :
          /\ Steps(cur.node)[cur.at] = "reg_exp"
          /\ Advance(cur.node, cur.at, FALSE)
    /\ codegen' = gen_reg_exp(codegen)
    /\ UNCHANGED op_run
    /\ UNCHANGED lint_vars
    /\ UNCHANGED printer_vars

(***************************************************************************)
(* The lint context as a state machine: a driver constructs the context,   *)
(* configures it with the with_* builders, lets rules report, and finally  *)
(* extracts the messages.                                                  *)
(***************************************************************************)
NoCall == [op |-> "none", given |-> "", invoked |-> 0, fix |-> None, result |-> ""]

\* the diagnostics a rule may hand over; the id stands for its message text
Diagnostics(id) == [id : {id}, severity : {"Error", "Warning"}, span : Spans]

Report(self, diagnostic_) ==
    [id |-> diagnostic_.id, rule |-> self.current_rule_name, span |-> diagnostic_.span,
     severity |-> self.severity]

LintIdle ==
    /\ ctx_state = "none"
    /\ ctx = LintContext_new([cfg |-> None, source_text |-> SourceText, directives |-> {}])
    /\ messages = <<>>
    /\ reported = <<>>
    /\ last_call = NoCall
    /\ applied_severity = None
    /\ cloned = None

InitLint == LintIdle /\ CodegenIdle

New(semantic) ==
    /\ ctx_state = "none"
    /\ IF new_assertion(semantic)
       THEN ctx_state' = "live" /\ ctx' = LintContext_new(semantic)
       ELSE ctx_state' = "panicked" /\ ctx' = [ctx EXCEPT !.semantic = semantic]
    /\ last_call' = [NoCall EXCEPT !.op = "new"]
    /\ UNCHANGED <<messages, reported, applied_severity>>
    /\ UNCHANGED cloned
    /\ UNCHANGED codegen_vars
    /\ UNCHANGED printer_vars

WithFix(fix) ==
    /\ ctx_state = "live"
    /\ ctx' = with_fix(ctx, fix)
    /\ last_call' = [NoCall EXCEPT !.op = "with"]
    /\ UNCHANGED <<ctx_state, messages, reported, applied_severity>>
    /\ UNCHANGED cloned
    /\ UNCHANGED codegen_vars
    /\ UNCHANGED printer_vars

WithEslintConfig(eslint_config) ==
    /\ ctx_state = "live"
    /\ ctx' = with_eslint_config(ctx, eslint_config)
    /\ last_call' = [NoCall EXCEPT !.op = "with"]
    /\ UNCHANGED <<ctx_state, messages, reported, applied_severity>>
    /\ UNCHANGED cloned
    /\ UNCHANGED codegen_vars
    /\ UNCHANGED printer_vars

WithRuleName(name) ==
    /\ ctx_state = "live"
    /\ ctx' = with_rule_name(ctx, name)
    /\ last_call' = [NoCall EXCEPT !.op = "with"]
    /\ UNCHANGED <<ctx_state, messages, reported, applied_severity>>
    /\ UNCHANGED cloned
    /\ UNCHANGED codegen_vars
    /\ UNCHANGED printer_vars

WithSeverity(severity) ==
    /\ ctx_state = "live"
    /\ ctx' = with_severity(ctx, severity)
    /\ applied_severity' = Some(severity)
    /\ last_call' = [NoCall EXCEPT !.op = "with"]
    /\ UNCHANGED <<ctx_state, messages, reported>>
    /\ UNCHANGED cloned
    /\ UNCHANGED codegen_vars
    /\ UNCHANGED printer_vars

Cfg ==
    /\ ctx_state = "live"
    /\ \E outcome \in cfg_outcomes(ctx) :
          last_call' = [NoCall EXCEPT !.op = "cfg", !.result = outcome]
    /\ UNCHANGED <<ctx_state, ctx, messages, reported, applied_severity>>
    /\ UNCHANGED cloned
    /\ UNCHANGED codegen_vars
    /\ UNCHANGED printer_vars

Diagnostic(diagnostic_) ==
    /\ ctx_state = "live"
    /\ Len(reported) < MaxReports
    /\ ctx' = diagnostic(ctx, diagnostic_)
    /\ reported' = Append(reported, Report(ctx, diagnostic_))
    /\ last_call' = [NoCall EXCEPT !.op = "diagnostic", !.given = diagnostic_.severity]
    /\ UNCHANGED <<ctx_state, messages, applied_severity>>
    /\ UNCHANGED cloned
    /\ UNCHANGED codegen_vars
    /\ UNCHANGED printer_vars

DiagnosticWithFix(diagnostic_, fix) ==
    /\ ctx_state = "live"
    /\ Len(reported) < MaxReports
    /\ LET done == diagnostic_with_fix(ctx, diagnostic_, fix)
       IN  /\ ctx' = done.ctx
           /\ last_call' = [NoCall EXCEPT !.op = "diagnostic_with_fix",
                                          !.given = diagnostic_.severity,
                                          !.invoked = done.invoked,
                                          !.fix = Some(fix)]
    /\ reported' = Append(reported, Report(ctx, diagnostic_))
    /\ UNCHANGED <<ctx_state, messages, applied_severity>>
    /\ UNCHANGED cloned
    /\ UNCHANGED codegen_vars
    /\ UNCHANGED printer_vars

IntoMessage ==
    /\ ctx_state = "live"
    /\ messages' = into_message(ctx)
    /\ ctx_state' = "consumed"
    /\ last_call' = [NoCall EXCEPT !.op = "into_message"]
    /\ UNCHANGED <<ctx, reported, applied_severity>>
    /\ UNCHANGED cloned
    /\ UNCHANGED codegen_vars
    /\ UNCHANGED printer_vars

\* the configurations the driver hands to with_eslint_config while linting
LintConfigs == {OxlintConfig_default, [env |-> [e \in {"browser"} |-> TRUE]]}

NextLint ==
    \/ \E semantic \in Semantics : New(semantic)
    \/ \E fix \in BOOLEAN : WithFix(fix)
    \/ \E eslint_config \in LintConfigs : WithEslintConfig(eslint_config)
    \/ \E name \in RuleNames : WithRuleName(name)
    \/ \E severity \in RunSeverities : WithSeverity(severity)
    \/ Cfg
    \/ \E d \in Diagnostics(Len(reported) + 1) : Diagnostic(d)
    \/ \E d \in Diagnostics(Len(reported) + 1), fix \in CompositeFixes :
          DiagnosticWithFix(d, fix)
    \/ IntoMessage

SpecLint == InitLint /\ [][NextLint]_vars

(***************************************************************************)
(* The configuration accessors as a state machine: the context of a file   *)
(* is given a configuration and rules ask whether a variable is a global.  *)
(***************************************************************************)
OxlintConfigs == [env : OxlintEnvs]

InitEnv ==
    /\ ctx_state = "live"
    /\ ctx = LintContext_new([cfg |-> Some("cfg"), source_text |-> SourceText,
                              directives |-> {}])
    /\ messages = <<>>
    /\ reported = <<>>
    /\ last_call = NoCall
    /\ applied_severity = None
    /\ cloned = None
    /\ CodegenIdle

EnvContainsVar(var) ==
    /\ ctx_state = "live"
    /\ last_call' = [NoCall EXCEPT !.op = "env_contains_var", !.given = var,
                                   !.result = env_contains_var(ctx, var)]
    /\ UNCHANGED <<ctx_state, ctx, messages, reported, applied_severity>>
    /\ UNCHANGED cloned
    /\ UNCHANGED codegen_vars
    /\ UNCHANGED printer_vars

NextEnv ==
    \/ \E eslint_config \in OxlintConfigs : WithEslintConfig(eslint_config)
    \/ \E var \in VarNames : EnvContainsVar(var)

SpecEnv == InitEnv /\ [][NextEnv]_vars

(***************************************************************************)
(* The expression printer as a specification.                              *)
(***************************************************************************)
InitOps == LintIdle /\ CodegenIdle

NextOps ==
    \/ \E minify \in BOOLEAN :
          WithOptions([CodegenOptions_default EXCEPT !.minify = minify])
    \/ PrintSoftSpace
    \/ PrintSpaceBeforeOperator
    \/ PrintOperator
    \/ PrintSpaceBeforeIdentifier
    \/ PrintKeyword
    \/ PrintName
    \/ PrintRegExp

SpecOps == InitOps /\ [][NextOps]_vars

(***************************************************************************)
(* Properties of the lint context.                                         *)
(***************************************************************************)
\* what into_message returns, or would return if it were called now
Returned == IF ctx_state = "consumed" THEN messages ELSE into_message(ctx)

Constructed == ctx_state \in {"live", "consumed"}

InIndex(report) ==
    DisableDirectives_contains(ctx.disable_directives, report.rule, report.span)

ReportOf(message) == reported[message.error.id]

LastMessage == Returned[Len(Returned)]

\* the most recent report was appended to the vector
LastReportKept ==
    /\ reported # <<>>
    /\ Returned # <<>>
    /\ LastMessage.error.id = Len(reported)

\* C1: a diagnostic reported while the current rule name is r, with span s, is not
\* among the messages into_message returns if the directive index contains (r, s).
C1_Suppression ==
    Constructed =>
        \A i \in 1..Len(reported) :
            InIndex(reported[i]) =>
                \A j \in 1..Len(Returned) : Returned[j].error.id # reported[i].id

C1_Witness ==
    /\ ctx_state = "consumed"
    /\ Len(reported) = 2
    /\ InIndex(reported[1])
    /\ ~InIndex(reported[2])
    /\ Len(messages) = 1

\* C2 as stated: once with_severity(S) has been applied, every message that
\* into_message returns has severity S.
C2_Original ==
    (Constructed /\ applied_severity # None) =>
        \A j \in 1..Len(Returned) :
            Returned[j].error.severity = Severity_from(applied_severity[1])

\* C2 amended: every message into_message returns has the severity the context was
\* configured with at the time of its report (S for a report made after
\* with_severity(S) and before the next with_severity, Warning before the first),
\* whatever severity the rule gave it.
C2_SeverityAtReport ==
    Constructed =>
        \A j \in 1..Len(Returned) :
            Returned[j].error.severity = ReportOf(Returned[j]).severity

C2_Witness ==
    /\ ctx_state = "live"
    /\ applied_severity = Some("Deny")
    /\ last_call.op \in {"diagnostic", "diagnostic_with_fix"}
    /\ last_call.given = "Warning"
    /\ LastReportKept
    /\ LastMessage.error.severity = "Error"

\* the reports the directive index does not suppress, in the order of the reports
KeptReports == SelectSeq(reported, LAMBDA r : ~InIndex(r))

IsPrefix(s, t) == Len(s) <= Len(t) /\ SubSeq(t, 1, Len(s)) = s

\* C3: into_message returns exactly the reports that were not suppressed, each once
\* and in the order of the reports, and no step removes or reorders a message that
\* was accumulated.
C3_AppendOnly ==
    /\ [](Constructed =>
            /\ Len(Returned) = Len(KeptReports)
            /\ \A j \in 1..Len(Returned) :
                  /\ Returned[j].error.id = KeptReports[j].id
                  /\ Returned[j].error.span = KeptReports[j].span)
    /\ [][IsPrefix(ctx.diagnostics, ctx'.diagnostics)]_vars

C3_Witness ==
    /\ ctx_state = "consumed"
    /\ Len(messages) = 2
    /\ messages[1].error.id = 1
    /\ messages[2].error.id = 2

\* C4: diagnostic_with_fix invokes the closure only in fix mode: without fix mode
\* the closure is not invoked and the message has no fix, in fix mode the message
\* carries the normalized fix; diagnostic always records a message without a fix.
C4_FixOnlyInFixMode ==
    /\ last_call.op = "diagnostic_with_fix" =>
          /\ last_call.invoked = (IF ctx.fix THEN 1 ELSE 0)
          /\ LastReportKept =>
                LastMessage.fix =
                    IF ctx.fix
                    THEN Some(normalize_fixes(last_call.fix[1], SourceText))
                    ELSE None
    /\ last_call.op = "diagnostic" =>
          /\ last_call.invoked = 0
          /\ LastReportKept => LastMessage.fix = None

C4_Witness ==
    /\ last_call.op = "diagnostic_with_fix"
    /\ ~ctx.fix
    /\ last_call.invoked = 0
    /\ LastReportKept
    /\ LastMessage.fix = None

\* C5: LintContext::new panics exactly when the semantic model has no control flow
\* graph, so cfg() finds one on every constructed context.
C5_CfgPresent ==
    /\ ctx_state = "panicked" => ctx.semantic.cfg = None
    /\ Constructed => ctx.semantic.cfg # None
    /\ last_call.op = "cfg" => last_call.result = "cfg"

C5_Witness ==
    /\ last_call.op = "cfg"
    /\ last_call.result = "cfg"
    /\ ctx.fix
    /\ ctx.current_rule_name = "no-debugger"
    /\ ctx.severity = "Error"

\* C6: env_contains_var(name) is true exactly when name is a `builtin` global or a
\* global of an environment that is switched on; a name of an environment without
\* a set of globals adds nothing.
C6_EnvContainsVar ==
    last_call.op = "env_contains_var" =>
        LET env == ctx.eslint_config.env
            var == last_call.given
        IN  last_call.result <=>
                \/ var \in GLOBALS["builtin"]
                \/ \E e \in DOMAIN env \cap DOMAIN GLOBALS : env[e] /\ var \in GLOBALS[e]

C6_Witness ==
    /\ last_call.op = "env_contains_var"
    /\ last_call.given = "process"
    /\ last_call.result = FALSE
    /\ DOMAIN ctx.eslint_config.env = {"bogus", "node", "browser"}
    /\ ctx.eslint_config.env["bogus"]
    /\ ctx.eslint_config.env["browser"]
    /\ ~ctx.eslint_config.env["node"]

(***************************************************************************)
(* Properties of the spacing primitives of Codegen.                        *)
(***************************************************************************)
\* the punctuators of the language that are made of the operator characters
Punctuators ==
    {<<"<">>, <<">">>, <<"<", "=">>, <<">", "=">>, <<"=", "=">>, <<"!", "=">>,
     <<"=", "=", "=">>, <<"!", "=", "=">>, <<"+">>, <<"-">>, <<"*">>, <<"/">>, <<"%">>,
     <<"*", "*">>, <<"+", "+">>, <<"-", "-">>, <<"<", "<">>, <<">", ">">>,
     <<">", ">", ">">>, <<"&">>, <<"|">>, <<"^">>, <<"!">>, <<"~">>, <<"&", "&">>,
     <<"|", "|">>, <<"=">>, <<"+", "=">>, <<"-", "=">>, <<"*", "=">>, <<"/", "=">>,
     <<"%", "=">>, <<"*", "*", "=">>, <<"<", "<", "=">>, <<">", ">", "=">>,
     <<">", ">", ">", "=">>, <<"&", "=">>, <<"|", "=">>, <<"^", "=">>,
     <<"&", "&", "=">>, <<"|", "|", "=">>, <<"=", ">">>}

StartsWith(bytes, prefix) ==
    Len(prefix) <= Len(bytes) /\ SubSeq(bytes, 1, Len(prefix)) = prefix

HtmlOpen == <<"<", "!", "-", "-">>
HtmlClose == <<"-", "-", ">">>

\* the tokens a scanner reads from a run of operator characters and spaces: the
\* longest punctuator each time; a comment opener swallows the rest
RECURSIVE Tokenize(_)
Tokenize(bytes) ==
    IF bytes = <<>> THEN <<>>
    ELSE IF Head(bytes) = " " THEN Tokenize(Tail(bytes))
    ELSE IF \/ StartsWith(bytes, HtmlOpen)
            \/ StartsWith(bytes, <<"/", "/">>)
            \/ StartsWith(bytes, <<"/", "*">>)
         THEN <<<<"comment">>>>
    ELSE LET lengths == {k \in 1..4 : k <= Len(bytes) /\ SubSeq(bytes, 1, k) \in Punctuators}
         IN  IF lengths = {} THEN <<<<"unknown">>>>
             ELSE LET k == CHOOSE n \in lengths : \A m \in lengths : m <= n
                  IN  <<SubSeq(bytes, 1, k)>> \o Tokenize(SubSeq(bytes, k + 1, Len(bytes)))

\* the bytes of the latest run of back-to-back operators, and the operators' texts
RunBytes == SubSeq(codegen.code, op_run.begins[1] + 1, op_run.end)

RunLexemes == [k \in 1..Len(op_run.ops) |-> as_str(op_run.ops[k])]

\* the buffer holds `pattern` at a place that spans offset b
CrossAt(pattern, b) ==
    \E i \in 0..(Len(codegen.code) - Len(pattern)) :
        /\ SubSeq(codegen.code, i + 1, i + Len(pattern)) = pattern
        /\ i < b
        /\ b < i + Len(pattern)

\* C8: operators printed back to back, each after a call of
\* print_space_before_operator, are read back as the same operators, and no `++`,
\* `--`, `-->` or `<!--` is formed across the boundary of two of them.
C8_Original ==
    op_run.ops # <<>> =>
        /\ Tokenize(RunBytes) = RunLexemes
        /\ \A k \in 2..Len(op_run.ops) :
              /\ ~CrossAt(HtmlOpen, op_run.begins[k])
              /\ ~CrossAt(HtmlClose, op_run.begins[k])

\* What does hold of C8: operators printed back to back are read back as the same
\* operators (no `++` or `--` token is formed), no `<!--` is formed across a
\* boundary, and a `-->` is formed across a boundary only by `--` followed by `>=`,
\* `>>` or `>>>`.
OperatorsReadBack ==
    op_run.ops # <<>> =>
        /\ Tokenize(RunBytes) = RunLexemes
        /\ \A k \in 2..Len(op_run.ops) :
              /\ ~CrossAt(HtmlOpen, op_run.begins[k])
              /\ CrossAt(HtmlClose, op_run.begins[k]) =>
                    /\ op_run.ops[k - 1] = Operator("Update", "Decrement")
                    /\ op_run.ops[k] \in {Operator("Binary", "GreaterEqualThan"),
                                          Operator("Binary", "ShiftRight"),
                                          Operator("Binary", "ShiftRightZeroFill")}

\* `x-- >= y` under minify: `x-->=` is in the buffer
C8_Witness ==
    /\ codegen.options.minify
    /\ codegen.code = <<"x", "-", "-", ">", "=">>
    /\ op_run.ops = <<Operator("Update", "Decrement"), Operator("Binary", "GreaterEqualThan")>>

\* the step just taken was the call `step` of the node being printed
JustCalled(step) ==
    /\ gen_pc' # None
    /\ gen_pc'[1].at > 1
    /\ Steps(gen_pc'[1].node)[gen_pc'[1].at - 1] = step
    /\ \/ gen_pc = None
       \/ gen_pc # None /\ gen_pc[1].at = gen_pc'[1].at - 1

WithSpace == [codegen EXCEPT !.code = Append(@, " ")]

PlusLike == {Operator("Binary", "Addition"), Operator("Unary", "UnaryPlus")}
MinusLike == {Operator("Binary", "Subtraction"), Operator("Unary", "UnaryNegation")}

\* the cases in which a space has to separate prev_op from the operator `next`
NeedsSpace(next) ==
    /\ codegen.prev_op # None
    /\ codegen.prev_op_end = Len(codegen.code)
    /\ LET prev == codegen.prev_op[1]
       IN  \/ prev \in PlusLike /\ next \in PlusLike \cup {Operator("Update", "Increment")}
           \/ prev \in MinusLike /\ next \in MinusLike \cup {Operator("Update", "Decrement")}
           \/ prev = Operator("Update", "Decrement") /\ next = Operator("Binary", "GreaterThan")
           \/ /\ prev = Operator("Unary", "LogicalNot")
              /\ next = Operator("Update", "Decrement")
              /\ Len(codegen.code) >= 2
              /\ codegen.code[Len(codegen.code) - 1] = "<"

\* C9: print_space_before_operator(next) appends one space exactly when prev_op is
\* set, prev_op_end is the length of the buffer and (prev, next) is one of the
\* listed pairs; otherwise it appends nothing; it changes nothing else.
C9_SpaceBeforeOperator ==
    [][JustCalled("space_before_operator") =>
          codegen' = IF NeedsSpace(gen_pc'[1].node.operator) THEN WithSpace ELSE codegen]_vars

C9_Witness ==
    /\ gen_pc # None
    /\ gen_pc[1].node.operator = Operator("Update", "Decrement")
    /\ gen_pc[1].at = 2
    /\ codegen.code = <<"x", "<", "!", " ">>
    /\ codegen.prev_op = Some(Operator("Unary", "LogicalNot"))
    /\ codegen.prev_op_end = 3

LastChar == Chars(codegen.code)[Len(Chars(codegen.code))]

\* C10 as stated: print_space_before_identifier appends a space if the last
\* character is an identifier part or prev_reg_exp_end is the length of the buffer,
\* and nothing otherwise, in every state, the initial one included.
C10_Original ==
    [][JustCalled("space_before_identifier") =>
          codegen' = IF \/ codegen.code # <<>> /\ is_identifier_part(LastChar)
                        \/ codegen.prev_reg_exp_end = Len(codegen.code)
                     THEN WithSpace
                     ELSE codegen]_vars

\* C10 amended: print_space_before_identifier appends a space if the buffer is not
\* empty and its last character is an identifier part or prev_reg_exp_end is the
\* length of the buffer; otherwise, and always on an empty buffer, it appends nothing.
C10_SpaceBeforeIdentifier ==
    [][JustCalled("space_before_identifier") =>
          codegen' = IF /\ codegen.code # <<>>
                        /\ \/ is_identifier_part(LastChar)
                           \/ codegen.prev_reg_exp_end = Len(codegen.code)
                     THEN WithSpace
                     ELSE codegen]_vars

\* `/a/ in`: the space after the regular expression is there, `in` is to come
C10_Witness ==
    /\ gen_pc # None
    /\ gen_pc[1].node.operator = Operator("Binary", "In")
    /\ gen_pc[1].at = 3
    /\ codegen.code = <<"/", "a", "/", " ">>
    /\ codegen.prev_reg_exp_end = 3
    /\ codegen.options.minify

(***************************************************************************)
(* The writers of Codegen called one after another, in any order.          *)
(***************************************************************************)
MaxOut == 3

\* the bytes given to print_char and the strings given to print_str
Bytes == {"a", "C3", "A9"}
Strs == {<<"a">>, <<"C3", "A9">>}

\* a program in which symbol 1 is declared as `x` and renamed to `m`, symbol 2 is
\* declared as `x` and not renamed, reference 1 resolves to symbol 1, reference 2 to
\* symbol 2 and reference 3 to no symbol
SymbolIds == {1, 2}
ReferenceIds == {1, 2, 3}
Manglers ==
    {[ renamed |-> (1 :> Some(<<"m">>)) @@ (2 :> None),
       original |-> (1 :> <<"x">>) @@ (2 :> <<"x">>),
       symbol_of |-> (1 :> Some(1)) @@ (2 :> Some(2)) @@ (3 :> None) ]}

IdentifierReferences ==
    {[name |-> <<"x">>, span |-> <<0, 1>>, reference_id |-> id] :
        id \in {None} \cup {Some(r) : r \in ReferenceIds}}

BindingIdentifiers ==
    {[name |-> <<"x">>, span |-> <<0, 1>>, symbol_id |-> id] :
        id \in {None} \cup {Some(y) : y \in SymbolIds}}

\* impl Gen for IdentifierReference, impl Gen for BindingIdentifier
gen_identifier_reference(self, reference) ==
    LET name == get_identifier_reference_name(self, reference)
    IN  print_str(add_source_mapping_for_name(self, reference.span, name), name)

gen_binding_identifier(self, ident) ==
    LET name == get_binding_identifier_name(self, ident)
    IN  print_str(add_source_mapping_for_name(self, ident.span, name), name)

\* a call made directly on the Codegen
Ready ==
    /\ stack = <<>>
    /\ building = None
    /\ returned = None

Direct(op, arg, after) ==
    /\ Len(after.code) <= MaxOut
    /\ codegen' = after
    /\ called' = [op |-> op, arg |-> arg, before |-> codegen, entry |-> None]
    /\ UNCHANGED <<stack, building, returned, indents_since>>
    /\ UNCHANGED <<gen_pc, pos, op_run>>
    /\ UNCHANGED lint_vars

WithMangler(mangler) ==
    /\ codegen.code = <<>>
    /\ called.op = ""
    /\ Ready
    /\ Direct("with_mangler", mangler, with_mangler(codegen, mangler))

CallPrintChar(ch) ==
    /\ Ready
    /\ Direct("print_char", <<ch>>, print_char(codegen, ch))

CallPrintStr(s) ==
    /\ Ready
    /\ Direct("print_str", s, print_str(codegen, s))

CallPrintSoftSpace ==
    /\ Ready
    /\ Direct("print_soft_space", <<>>, print_soft_space(codegen))

CallPrintHardSpace ==
    /\ Ready
    /\ Direct("print_hard_space", <<>>, print_hard_space(codegen))

CallPrintSoftNewline ==
    /\ Ready
    /\ Direct("print_soft_newline", <<>>, print_soft_newline(codegen))

CallPrintHardNewline ==
    /\ Ready
    /\ Direct("print_hard_newline", <<>>, print_hard_newline(codegen))

CallPrintSemicolonAfterStatement ==
    /\ Ready
    /\ Direct("print_semicolon_after_statement", <<>>, print_semicolon_after_statement(codegen))

CallPrintSemicolonIfNeeded ==
    /\ Ready
    /\ Direct("print_semicolon_if_needed", <<>>, print_semicolon_if_needed(codegen))

PrintIdentifierReference(reference) ==
    /\ Ready
    /\ Direct("identifier_reference", reference, gen_identifier_reference(codegen, reference))

PrintBindingIdentifier(ident) ==
    /\ Ready
    /\ Direct("binding_identifier", ident, gen_binding_identifier(codegen, ident))

IntoSourceText ==
    /\ Ready
    /\ \E outcome \in into_source_text_outcomes(codegen) :
          /\ codegen' = outcome.self
          /\ returned' = Some([string |-> outcome.string, ub |-> outcome.ub])
    /\ called' = [op |-> "into_source_text", arg |-> <<>>, before |-> codegen, entry |-> None]
    /\ UNCHANGED <<stack, building, indents_since>>
    /\ UNCHANGED <<gen_pc, pos, op_run>>
    /\ UNCHANGED lint_vars

InitWriters == LintIdle /\ CodegenIdle

NextWriters ==
    \/ \E minify \in BOOLEAN :
          WithOptions([CodegenOptions_default EXCEPT !.minify = minify])
    \/ \E mangler \in {Some(m) : m \in Manglers} : WithMangler(mangler)
    \/ \E ch \in Bytes : CallPrintChar(ch)
    \/ \E s \in Strs : CallPrintStr(s)
    \/ CallPrintSoftSpace
    \/ CallPrintHardSpace
    \/ CallPrintSoftNewline
    \/ CallPrintHardNewline
    \/ CallPrintSemicolonAfterStatement
    \/ CallPrintSemicolonIfNeeded
    \/ \E reference \in IdentifierReferences : PrintIdentifierReference(reference)
    \/ \E ident \in BindingIdentifiers : PrintBindingIdentifier(ident)
    \/ IntoSourceText

SpecWriters == InitWriters /\ [][NextWriters]_vars

(***************************************************************************)
(* Properties of the writers.                                              *)
(***************************************************************************)
\* the Codegen before the latest call, with the bytes `s` appended to the buffer
BeforeWith(s) == [called.before EXCEPT !.code = @ \o s]

\* the bytes the latest call appended
Emitted == SubSeq(codegen.code, Len(called.before.code) + 1, Len(codegen.code))

\* C11: print_soft_space and print_soft_newline change nothing under minify and
\* append exactly a space / a newline otherwise; print_hard_space and
\* print_hard_newline append exactly one byte, a space / a newline, in both modes.
C11_SoftAndHardWriters ==
    /\ called.op = "print_soft_space" =>
          codegen = IF called.before.options.minify THEN called.before ELSE BeforeWith(<<" ">>)
    /\ called.op = "print_soft_newline" =>
          codegen = IF called.before.options.minify THEN called.before ELSE BeforeWith(<<"\n">>)
    /\ called.op = "print_hard_space" => codegen = BeforeWith(<<" ">>)
    /\ called.op = "print_hard_newline" => codegen = BeforeWith(<<"\n">>)

\* under minify, a hard newline was printed and the soft space after it printed nothing
C11_Witness ==
    /\ called.op = "print_soft_space"
    /\ codegen.options.minify
    /\ codegen.code = <<"\n">>
    /\ codegen = called.before

\* C12: print_semicolon_after_statement under minify sets needs_semicolon and leaves
\* the buffer (and everything else) unchanged; without minify it appends exactly `;`
\* and a newline and leaves needs_semicolon (and everything else) unchanged.
C12_SemicolonAfterStatement ==
    called.op = "print_semicolon_after_statement" =>
        codegen = IF called.before.options.minify
                  THEN [called.before EXCEPT !.needs_semicolon = TRUE]
                  ELSE BeforeWith(<<";", "\n">>)

C12_Witness ==
    /\ called.op = "print_semicolon_after_statement"
    /\ codegen.options.minify
    /\ ~called.before.needs_semicolon
    /\ codegen.needs_semicolon
    /\ codegen.code = <<"a">>

\* the new name the mangler holds for the symbol an identifier resolves to, if any
RenamedName(mangler, symbol) ==
    IF mangler = None \/ symbol = None THEN None ELSE mangler[1].renamed[symbol[1]]

SymbolOfReference(mangler, reference_id) ==
    IF mangler = None \/ reference_id = None THEN None
    ELSE mangler[1].symbol_of[reference_id[1]]

\* C19: the name printed for an identifier reference and for a binding identifier is
\* the mangler's new name of the symbol it resolves to; it is the original name when
\* the mangler has no new name for it, when the identifier is unresolved and when
\* no mangler is configured.
C19_MangledNames ==
    /\ called.op = "identifier_reference" =>
          LET renamed == RenamedName(called.before.mangler,
                             SymbolOfReference(called.before.mangler, called.arg.reference_id))
          IN  Emitted = IF renamed # None THEN renamed[1] ELSE called.arg.name
    /\ called.op = "binding_identifier" =>
          LET renamed == RenamedName(called.before.mangler, called.arg.symbol_id)
          IN  Emitted = IF renamed # None THEN renamed[1] ELSE called.arg.name

\* the binding of the renamed symbol is printed as `m`, then a reference to it
C19_Witness ==
    /\ called.op = "identifier_reference"
    /\ called.arg.reference_id = Some(1)
    /\ codegen.mangler # None
    /\ codegen.code = <<"m", "m">>

\* C20: whenever into_source_text turns the buffer into a string, after any calls of
\* print_char (with any byte), print_str and the other writers, the bytes are UTF-8.
C20_Utf8 == called.op = "into_source_text" => is_utf8(called.before.code)

\* print_char(0xC3), then into_source_text
C20_Witness ==
    /\ called.op = "into_source_text"
    /\ called.before.code = <<"C3">>
    /\ returned # None
    /\ returned[1].ub

(***************************************************************************)
(* The statement printer: build prints the statements of a program, each   *)
(* printer calling the primitives of Codegen and the printers of the       *)
(* statements it holds.  `stack` holds the calls still to be made; a call  *)
(* that runs other printers is taken in two steps, up to the first of them *)
(* and after the last.                                                     *)
(***************************************************************************)
MaxStatements == 2

Stmt(kind, body) == [kind |-> kind, body |-> body]

ExpressionStatement == Stmt("expression", <<>>)
EmptyStatement == Stmt("empty", <<>>)
BlockStatement(body) == Stmt("block", body)
WhileStatement(body) == Stmt("while", <<body>>)
\* `if (a) a; else <alternate>`
IfStatement(alternate) == Stmt("if", <<alternate>>)
\* a construct printed between print_block_start and print_block_end
BracedStatement(body) == Stmt("braced", body)

BlockBodies ==
    {<<>>,
     <<ExpressionStatement>>,
     <<ExpressionStatement, ExpressionStatement>>,
     <<ExpressionStatement, ExpressionStatement, ExpressionStatement>>,
     <<BlockStatement(<<ExpressionStatement>>)>>,
     <<WhileStatement(ExpressionStatement)>>,
     <<IfStatement(ExpressionStatement)>>}

Statements ==
    {ExpressionStatement, EmptyStatement}
    \cup {BlockStatement(body) : body \in BlockBodies}
    \cup {WhileStatement(body) :
            body \in {ExpressionStatement, EmptyStatement,
                      BlockStatement(<<ExpressionStatement>>)}}
    \cup {IfStatement(alternate) : alternate \in {ExpressionStatement, EmptyStatement}}
    \cup {BracedStatement(<<ExpressionStatement>>),
          BracedStatement(<<BlockStatement(<<ExpressionStatement>>)>>)}

\* the comments of the programs: one block comment, attached to the node at 0
ProgramComments == <<[kind |-> "block", span |-> <<0, 1>>, attached_to |-> 0]>>

Program(body) == [source_text |-> <<"s">>, body |-> body, comments |-> ProgramComments]

\* the statements that stand around the one a program is about
SimpleStatements ==
    {ExpressionStatement, EmptyStatement, BlockStatement(<<ExpressionStatement>>)}

\* the programs of at most MaxStatements statements, at most one of them not simple
Programs ==
    {Program(body) :
        body \in UNION {{b \in [1..n -> Statements] :
                            Cardinality({i \in 1..n : b[i] \notin SimpleStatements}) <= 1} :
                        n \in 0..MaxStatements}}

\* the programs printed under every combination of the options
BuildPrograms ==
    {Program(<<ExpressionStatement>>),
     Program(<<BlockStatement(<<ExpressionStatement>>), IfStatement(ExpressionStatement)>>),
     Program(<<WhileStatement(BlockStatement(<<ExpressionStatement>>)),
               BracedStatement(<<ExpressionStatement>>)>>),
     Program(<<WhileStatement(EmptyStatement), EmptyStatement>>)}

BuildOptions ==
    {[ single_quote |-> FALSE,
       minify |-> minify,
       comments |-> comments,
       annotation_comments |-> annotation_comments,
       source_map_path |-> source_map_path ] :
        minify \in BOOLEAN, comments \in BOOLEAN, annotation_comments \in BOOLEAN,
        source_map_path \in {None, Some("out.js.map")}}

\* a call still to be made: the function, its arguments, and for the second step of
\* a call the Codegen its first step began with
Call(op, arg, entry) == [op |-> op, arg |-> arg, entry |-> entry]

Primitive(op) == Call(op, <<>>, None)

\* Codegen::build_comments: every comment indexed under the node it is attached to
build_comments(self, comments) ==
    [self EXCEPT !.comments = {<<comments[i].attached_to, comments[i]>> : i \in DOMAIN comments}]

\* for stmt in statements { p.print_semicolon_if_needed(); stmt.print(p, ctx); }
RECURSIVE print_statements(_, _)
print_statements(statements, entry) ==
    IF statements = <<>> THEN <<>>
    ELSE <<Primitive("print_semicolon_if_needed"), Call("statement", Head(statements), entry)>>
         \o print_statements(Tail(statements), entry)

\* Codegen::build up to program.print
build(self, program) ==
    LET quoted == [self EXCEPT !.quote = IF self.options.single_quote THEN "'" ELSE "\"",
                               !.source_text = program.source_text]
        indexed == IF print_annotation_comments(quoted.options)
                   THEN build_comments(quoted, program.comments)
                   ELSE quoted
        mapped == IF indexed.options.source_map_path # None
                  THEN [indexed EXCEPT !.sourcemap_builder =
                           Some(SourcemapBuilder_new(indexed.options.source_map_path[1],
                                                     program.source_text))]
                  ELSE indexed
    IN  [self |-> mapped, calls |-> print_statements(program.body, None)]

\* Codegen::build after program.print: the CodegenReturn, for each outcome of
\* into_source_text
build_return_outcomes(self) ==
    {[self |-> outcome.self,
      ret |-> [code |-> outcome.string,
               map |-> IF self.sourcemap_builder # None
                       THEN Some(SourcemapBuilder_into_sourcemap(self.sourcemap_builder[1]))
                       ELSE None,
               ub |-> outcome.ub]] : outcome \in into_source_text_outcomes(self)}

\* the identifier `a` of the expressions
IdentifierA == [name |-> <<"a">>, span |-> <<0, 1>>, reference_id |-> None]

\* impl Gen for the statements: the source mapping of the statement, then its calls
gen_statement(self, stmt) ==
    [self |-> add_source_mapping(self, 0),
     calls |->
        CASE stmt.kind = "expression" ->
                <<Primitive("print_indent"), Call("identifier_reference", IdentifierA, None),
                  Primitive("print_semicolon_after_statement")>>
          [] stmt.kind = "empty" ->
                <<Primitive("print_indent"), Primitive("print_semicolon"),
                  Primitive("print_soft_newline")>>
          [] stmt.kind = "block" ->
                <<Primitive("print_indent"), Call("print_block_statement", stmt, None),
                  Primitive("print_soft_newline")>>
          [] stmt.kind = "while" ->
                <<Primitive("print_indent"), Call("print_str", <<"w", "h", "i", "l", "e">>, None),
                  Primitive("print_soft_space"), Call("print_str", <<"(", "a", ")">>, None),
                  Call("print_body", [stmt |-> stmt.body[1], need_space |-> FALSE], None)>>
          [] stmt.kind = "if" ->
                <<Primitive("print_indent"), Call("print_str", <<"i", "f">>, None),
                  Primitive("print_soft_space"), Call("print_str", <<"(", "a", ")">>, None),
                  Call("print_body", [stmt |-> ExpressionStatement, need_space |-> FALSE], None),
                  Primitive("print_indent"), Primitive("print_semicolon_if_needed"),
                  Primitive("print_else"),
                  Call("print_body", [stmt |-> stmt.body[1], need_space |-> TRUE], None)>>
          [] stmt.kind = "braced" ->
                <<Primitive("print_indent"), Primitive("print_block_start")>>
                \o print_statements(stmt.body, None)
                \o <<Call("print_block_end", <<>>, Some(self)),
                     Primitive("needs_semicolon = false"),
                     Primitive("print_soft_newline")>>]

\* p.print_space_before_identifier(); p.print_str("else")
gen_else(self) == print_str(print_space_before_identifier(self), <<"e", "l", "s", "e">>)

\* mutant: the space is printed whenever need_space is set
print_body_spaced(self, stmt, need_space) ==
    CASE stmt.kind = "block" ->
            [self |-> print_soft_space(self),
             calls |-> <<Call("print_block_statement", stmt, None),
                         Call("print_body_return", stmt, Some(self))>>]
      [] stmt.kind = "empty" ->
            [self |-> print_soft_newline(print_semicolon(self)), calls |-> <<>>]
      [] OTHER ->
            [self |-> [(IF need_space THEN print_hard_space(self) ELSE self)
                          EXCEPT !.print_next_indent_as_space = TRUE],
             calls |-> <<Call("statement", stmt, None)>>]

\* print_body: up to the printer of the body, and the calls that follow
print_body(self, stmt, need_space) ==
    CASE stmt.kind = "block" ->
            [self |-> print_soft_space(self),
             calls |-> <<Call("print_block_statement", stmt, None),
                         Call("print_body_return", stmt, Some(self))>>]
      [] stmt.kind = "empty" ->
            [self |-> print_soft_newline(print_semicolon(self)), calls |-> <<>>]
      [] OTHER ->
            [self |-> [(IF need_space /\ self.options.minify THEN print_hard_space(self)
                        ELSE self)
                          EXCEPT !.print_next_indent_as_space = TRUE],
             calls |-> <<Call("statement", stmt, None)>>]

\* print_body after print_block_statement
print_body_return(self) == print_soft_newline(self)

\* mutant: the body is printed at the level of the braces
print_curly_braces_flat(self, span, single_line, op) ==
    LET opened == print_char(add_source_mapping(self, span[1]), "{")
    IN  [self |-> IF ~single_line THEN print_soft_newline(opened) ELSE opened,
         calls |-> op \o <<Call("print_curly_braces_return",
                                [span |-> span, single_line |-> single_line], Some(self))>>]

\* print_curly_braces: up to op(self), the calls of op, and the rest
print_curly_braces(self, span, single_line, op) ==
    LET opened == print_char(add_source_mapping(self, span[1]), "{")
    IN  [self |-> IF ~single_line THEN indent(print_soft_newline(opened)) ELSE opened,
         calls |-> op \o <<Call("print_curly_braces_return",
                                [span |-> span, single_line |-> single_line], Some(self))>>]

print_curly_braces_return(self, span, single_line) ==
    LET closed == IF ~single_line THEN print_indent(dedent(self)) ELSE self
    IN  print_char(add_source_mapping(closed, span[2]), "}")

\* print_block_statement: the call of print_curly_braces with the closure that prints
\* the body, and the rest
print_block_statement(self, stmt) ==
    <<Call("print_curly_braces",
           [span |-> <<0, 1>>, single_line |-> stmt.body = <<>>,
            op |-> print_statements(stmt.body, Some(self))], None),
      Call("print_block_statement_return", stmt, Some(self))>>

\* mutant: needs_semicolon is left as the body left it
print_block_statement_return_unchanged(self) == self

print_block_statement_return(self) == [self EXCEPT !.needs_semicolon = FALSE]

Calling(op) == stack # <<>> /\ Head(stack).op = op

\* the call at the head of the stack is made: the Codegen becomes `after`, the calls
\* it makes in turn come first
Step(after, calls) ==
    /\ codegen' = after
    /\ stack' = calls \o Tail(stack)
    /\ called' = [op |-> Head(stack).op, arg |-> Head(stack).arg, before |-> codegen,
                  entry |-> Head(stack).entry]
    /\ UNCHANGED <<building, returned>>
    /\ UNCHANGED <<gen_pc, pos, op_run>>
    /\ UNCHANGED lint_vars

\* one more call of print_indent since print_body set the flag (2: two or more)
Counted ==
    IF indents_since = None THEN None
    ELSE Some(IF indents_since[1] < 2 THEN indents_since[1] + 1 ELSE 2)

Build(program) ==
    /\ Ready
    /\ called.op = ""
    /\ codegen' = build(codegen, program).self
    /\ stack' = build(codegen, program).calls
    /\ building' = Some(program)
    /\ called' = [op |-> "build", arg |-> program, before |-> codegen, entry |-> None]
    /\ UNCHANGED <<returned, indents_since>>
    /\ UNCHANGED <<gen_pc, pos, op_run>>
    /\ UNCHANGED lint_vars

BuildReturn ==
    /\ building # None
    /\ stack = <<>>
    /\ returned = None
    /\ \E outcome \in build_return_outcomes(codegen) :
          /\ codegen' = outcome.self
          /\ returned' = Some(outcome.ret)
    /\ called' = [op |-> "build_return", arg |-> <<>>, before |-> codegen, entry |-> None]
    /\ UNCHANGED <<stack, building, indents_since>>
    /\ UNCHANGED <<gen_pc, pos, op_run>>
    /\ UNCHANGED lint_vars

GenStatement ==
    /\ Calling("statement")
    /\ Step(gen_statement(codegen, Head(stack).arg).self,
            gen_statement(codegen, Head(stack).arg).calls)
    /\ UNCHANGED indents_since

GenIdentifierReference ==
    /\ Calling("identifier_reference")
    /\ Step(gen_identifier_reference(codegen, Head(stack).arg), <<>>)
    /\ UNCHANGED indents_since

GenElse ==
    /\ Calling("print_else")
    /\ Step(gen_else(codegen), <<>>)
    /\ UNCHANGED indents_since

StmtPrintStr ==
    /\ Calling("print_str")
    /\ Step(print_str(codegen, Head(stack).arg), <<>>)
    /\ UNCHANGED indents_since

StmtPrintSoftSpace ==
    /\ Calling("print_soft_space")
    /\ Step(print_soft_space(codegen), <<>>)
    /\ UNCHANGED indents_since

StmtPrintSoftNewline ==
    /\ Calling("print_soft_newline")
    /\ Step(print_soft_newline(codegen), <<>>)
    /\ UNCHANGED indents_since

PrintSemicolon ==
    /\ Calling("print_semicolon")
    /\ Step(print_semicolon(codegen), <<>>)
    /\ UNCHANGED indents_since

PrintIndent ==
    /\ Calling("print_indent")
    /\ Step(print_indent(codegen), <<>>)
    /\ indents_since' = Counted

PrintSemicolonAfterStatement ==
    /\ Calling("print_semicolon_after_statement")
    /\ Step(print_semicolon_after_statement(codegen), <<>>)
    /\ UNCHANGED indents_since

PrintSemicolonIfNeeded ==
    /\ Calling("print_semicolon_if_needed")
    /\ Step(print_semicolon_if_needed(codegen), <<>>)
    /\ UNCHANGED indents_since

PrintBlockStart ==
    /\ Calling("print_block_start")
    /\ Step(print_block_start(codegen, 0), <<>>)
    /\ UNCHANGED indents_since

PrintBlockEnd ==
    /\ Calling("print_block_end")
    /\ Step(print_block_end(codegen, 1), <<>>)
    /\ indents_since' = Counted

\* p.needs_semicolon = false, of the printers that close a brace themselves
ClearNeedsSemicolon ==
    /\ Calling("needs_semicolon = false")
    /\ Step([codegen EXCEPT !.needs_semicolon = FALSE], <<>>)
    /\ UNCHANGED indents_since

PrintBody ==
    /\ Calling("print_body")
    /\ LET stmt == Head(stack).arg.stmt
           done == print_body(codegen, stmt, Head(stack).arg.need_space)
       IN  /\ Step(done.self, done.calls)
           /\ indents_since' = IF stmt.kind \in {"block", "empty"} THEN indents_since
                               ELSE Some(0)

PrintBodyReturn ==
    /\ Calling("print_body_return")
    /\ Step(print_body_return(codegen), <<>>)
    /\ UNCHANGED indents_since

PrintBlockStatement ==
    /\ Calling("print_block_statement")
    /\ Step(codegen, print_block_statement(codegen, Head(stack).arg))
    /\ UNCHANGED indents_since

PrintCurlyBraces ==
    /\ Calling("print_curly_braces")
    /\ LET arg == Head(stack).arg
           done == print_curly_braces(codegen, arg.span, arg.single_line, arg.op)
       IN  Step(done.self, done.calls)
    /\ UNCHANGED indents_since

PrintCurlyBracesReturn ==
    /\ Calling("print_curly_braces_return")
    /\ Step(print_curly_braces_return(codegen, Head(stack).arg.span,
                                      Head(stack).arg.single_line), <<>>)
    /\ indents_since' = IF Head(stack).arg.single_line THEN indents_since ELSE Counted

PrintBlockStatementReturn ==
    /\ Calling("print_block_statement_return")
    /\ Step(print_block_statement_return(codegen), <<>>)
    /\ UNCHANGED indents_since

PrinterSteps ==
    \/ GenStatement
    \/ GenIdentifierReference
    \/ GenElse
    \/ StmtPrintStr
    \/ StmtPrintSoftSpace
    \/ StmtPrintSoftNewline
    \/ PrintSemicolon
    \/ PrintIndent
    \/ PrintSemicolonAfterStatement
    \/ PrintSemicolonIfNeeded
    \/ PrintBlockStart
    \/ PrintBlockEnd
    \/ ClearNeedsSemicolon
    \/ PrintBody
    \/ PrintBodyReturn
    \/ PrintBlockStatement
    \/ PrintCurlyBraces
    \/ PrintCurlyBracesReturn
    \/ PrintBlockStatementReturn
    \/ BuildReturn

InitStmt == LintIdle /\ CodegenIdle

NextStmt ==
    \/ \E minify \in BOOLEAN : WithOptions([CodegenOptions_default EXCEPT !.minify = minify])
    \/ \E program \in Programs : Build(program)
    \/ PrinterSteps

SpecStmt == InitStmt /\ [][NextStmt]_vars

InitBuild == LintIdle /\ CodegenIdle

NextBuild ==
    \/ \E options \in BuildOptions : WithOptions(options)
    \/ \E program \in BuildPrograms : Build(program)
    \/ PrinterSteps

SpecBuild == InitBuild /\ [][NextBuild]_vars

(***************************************************************************)
(* Properties of the statement printer                                     *)
(***************************************************************************)
Tabs(n) == [i \in 1..n |-> "\t"]

EndsWith(bytes, suffix) ==
    /\ Len(suffix) <= Len(bytes)
    /\ SubSeq(bytes, Len(bytes) - Len(suffix) + 1, Len(bytes)) = suffix

\* a statement of the body of a block is about to print itself
BodyStatement == called.op = "statement" /\ called.entry # None

\* C13: print_block_statement emits `{`, then for a body that is not empty a soft
\* newline, the body one indent level deeper and the indentation of `}`, then `}`
\* (without minify; under minify neither newline nor indentation is printed and the
\* level is not counted); every statement of the body is printed after
\* print_semicolon_if_needed, so with needs_semicolon false; and on return
\* needs_semicolon is false and the indent level is the one of the entry.
C13_BlockStatement ==
    /\ called.op = "print_block_statement_return" =>
          LET entry == called.entry[1]
              minify == entry.options.minify
          IN  /\ ~codegen.needs_semicolon
              /\ codegen.indent = entry.indent
              /\ IF called.arg.body = <<>>
                 THEN codegen.code = entry.code \o <<"{", "}">>
                 ELSE /\ StartsWith(codegen.code,
                                    entry.code \o (IF minify THEN <<"{">> ELSE <<"{", "\n">>))
                      /\ EndsWith(codegen.code,
                                  IF minify THEN <<"}">> ELSE Tabs(entry.indent) \o <<"}">>)
                      /\ Len(codegen.code) > Len(entry.code) + 2
    /\ BodyStatement =>
          /\ ~called.before.needs_semicolon
          /\ called.before.indent =
                called.entry[1].indent + (IF called.entry[1].options.minify THEN 0 ELSE 1)

\* the block `{ { a } }` returned, without minify: the inner block was printed one
\* level deeper, and needs_semicolon is false
C13_Witness ==
    /\ called.op = "print_block_statement_return"
    /\ called.arg = BlockStatement(<<BlockStatement(<<ExpressionStatement>>)>>)
    /\ ~codegen.options.minify
    /\ codegen.code = <<"{", "\n", "\t", "{", "\n", "\t", "\t", "a", ";", "\n", "\t", "}", "\n", "}">>

\* C14 as stated: after print_block_statement, print_curly_braces and print_block_end
\* needs_semicolon is false.
C14_Original ==
    called.op \in {"print_block_statement_return", "print_curly_braces_return",
                   "print_block_end"} => ~codegen.needs_semicolon

\* C14: print_block_statement clears needs_semicolon when it returns;
\* print_curly_braces and print_block_end emit `}` and leave needs_semicolon as it
\* was, to be cleared by their callers; and print_semicolon_if_needed emits nothing
\* directly after a `}`.
C14_ClearedByCaller ==
    /\ called.op = "print_block_statement_return" => ~codegen.needs_semicolon
    /\ called.op \in {"print_curly_braces_return", "print_block_end"} =>
          /\ codegen.needs_semicolon = called.before.needs_semicolon
          /\ EndsWith(codegen.code, <<"}">>)
    /\ (called.op = "print_semicolon_if_needed" /\ EndsWith(called.before.code, <<"}">>)) =>
          codegen = called.before

\* under minify print_block_end has printed the `}` of `{a}` with the semicolon of
\* `a` still owed
C14_Witness ==
    /\ called.op = "print_block_end"
    /\ codegen.options.minify
    /\ codegen.code = <<"{", "a", "}">>
    /\ codegen.needs_semicolon

\* C15: print_body of a block emits a soft space, the block, then a soft newline; of
\* an empty statement `;` then a soft newline; of any other statement a hard space
\* exactly when need_space and minify both hold, sets print_next_indent_as_space and
\* then prints the statement.
C15_PrintBody ==
    /\ called.op = "print_body" =>
          LET stmt == called.arg.stmt
              minify == called.before.options.minify
          IN  CASE stmt.kind = "block" ->
                      /\ codegen = IF minify THEN called.before ELSE BeforeWith(<<" ">>)
                      /\ Head(stack) = Call("print_block_statement", stmt, None)
                      /\ stack[2].op = "print_body_return"
                [] stmt.kind = "empty" ->
                      codegen = BeforeWith(IF minify THEN <<";">> ELSE <<";", "\n">>)
                [] OTHER ->
                      /\ codegen =
                            [BeforeWith(IF called.arg.need_space /\ minify THEN <<" ">> ELSE <<>>)
                                EXCEPT !.print_next_indent_as_space = TRUE]
                      /\ Head(stack) = Call("statement", stmt, None)
    /\ called.op = "print_body_return" =>
          LET entry == called.entry[1]
              minify == entry.options.minify
          IN  /\ StartsWith(codegen.code,
                            entry.code \o (IF minify THEN <<"{">> ELSE <<" ", "{">>))
              /\ EndsWith(codegen.code, IF minify THEN <<"}">> ELSE <<"}", "\n">>)
              /\ codegen = IF minify THEN called.before ELSE BeforeWith(<<"\n">>)

\* under minify the body of the `else` of `if(a)a;else a` is a statement that asks
\* for a space: the space is printed and the flag set
C15_Witness ==
    /\ called.op = "print_body"
    /\ called.arg = [stmt |-> ExpressionStatement, need_space |-> TRUE]
    /\ codegen.options.minify
    /\ codegen.code = <<"i", "f", "(", "a", ")", "a", ";", "e", "l", "s", "e", " ">>
    /\ codegen.print_next_indent_as_space

\* C16 as stated: the first print_indent after the flag is set emits a single space
\* and clears the flag, the print_indent after it emits `indent` tabs.
C16_Original ==
    /\ (called.op = "print_indent" /\ indents_since = Some(1)) =>
          codegen = [BeforeWith(<<" ">>) EXCEPT !.print_next_indent_as_space = FALSE]
    /\ (called.op = "print_indent" /\ indents_since = Some(2)) =>
          codegen = BeforeWith(Tabs(called.before.indent))

\* C16: without minify the first print_indent after print_next_indent_as_space is set
\* emits a single space and clears the flag, and the print_indent after it emits
\* `indent` tabs; under minify print_indent emits nothing and leaves the flag set.
C16_OneShot ==
    /\ (called.op = "print_indent" /\ indents_since = Some(1)) =>
          /\ called.before.print_next_indent_as_space
          /\ codegen = IF called.before.options.minify THEN called.before
                       ELSE [BeforeWith(<<" ">>) EXCEPT !.print_next_indent_as_space = FALSE]
    /\ (called.op = "print_indent" /\ indents_since = Some(2)) =>
          codegen = IF called.before.options.minify THEN called.before
                    ELSE BeforeWith(Tabs(called.before.indent))

\* inside a block, the print_indent before `else` follows the one that printed the
\* body of the `if` after a space: it emits one tab
C16_Witness ==
    /\ called.op = "print_indent"
    /\ indents_since = Some(2)
    /\ ~codegen.options.minify
    /\ ~called.before.print_next_indent_as_space
    /\ called.before.indent = 1
    /\ Emitted = <<"\t">>
    /\ EndsWith(called.before.code, <<"i", "f", " ", "(", "a", ")", " ", "a", ";", "\n">>)

\* under minify the flag is still set after the print_indent that follows print_body
C16_MinifyWitness ==
    /\ called.op = "print_indent"
    /\ indents_since = Some(1)
    /\ codegen.options.minify
    /\ codegen.print_next_indent_as_space

(***************************************************************************)
(* Properties of build under every combination of the options              *)
(***************************************************************************)
\* the comment map with the comments of the program indexed
Indexed == {<<ProgramComments[i].attached_to, ProgramComments[i]>> : i \in DOMAIN ProgramComments}

\* C17: from build on, the comment map holds the comments of the program exactly when
\* minify is false and comments or annotation_comments is true, and is empty
\* otherwise; under minify it is empty whatever the other two options are.
C17_CommentsGated ==
    /\ building = None => codegen.comments = {}
    /\ building # None =>
          /\ codegen.comments =
                IF ~codegen.options.minify
                   /\ (codegen.options.comments \/ codegen.options.annotation_comments)
                THEN Indexed
                ELSE {}
          /\ codegen.options.minify => codegen.comments = {}

\* build returned with only annotation_comments set: the comments were indexed
C17_Witness ==
    /\ returned # None
    /\ ~codegen.options.minify
    /\ ~codegen.options.comments
    /\ codegen.options.annotation_comments
    /\ codegen.comments = Indexed
    /\ Indexed # {}

\* build returned under minify with comments and annotation_comments both set: no
\* comment was indexed
C17_MinifyWitness ==
    /\ returned # None
    /\ codegen.options.minify
    /\ codegen.options.comments
    /\ codegen.options.annotation_comments
    /\ codegen.comments = {}

\* C18: the result of build carries a source map exactly when source_map_path is
\* set; when it is not set, there is no builder, add_source_mapping and
\* add_source_mapping_for_name return the Codegen as it is, and the printer of a
\* statement, which begins with add_source_mapping, has changed nothing before its
\* first write.
C18_SourceMap ==
    /\ returned # None =>
          ((returned[1].map # None) <=> (codegen.options.source_map_path # None))
    /\ (building # None /\ codegen.options.source_map_path = None) =>
          /\ codegen.sourcemap_builder = None
          /\ \A position \in 0..1 : add_source_mapping(codegen, position) = codegen
          /\ add_source_mapping_for_name(codegen, <<0, 1>>, <<"a">>) = codegen
          /\ called.op = "statement" => codegen = called.before
    /\ (building # None /\ codegen.options.source_map_path # None) =>
          /\ codegen.sourcemap_builder # None
          /\ called.op = "statement" =>
                codegen.sourcemap_builder[1].mappings =
                    Append(called.before.sourcemap_builder[1].mappings,
                           [generated |-> Len(codegen.code), original |-> 0, name |-> None])

\* build returned without source_map_path: statements were printed and the result has
\* no map
C18_Witness ==
    /\ returned # None
    /\ codegen.options.source_map_path = None
    /\ returned[1].map = None
    /\ returned[1].code # <<>>

\* build returned with source_map_path set: the map of the result holds mappings
C18_MapWitness ==
    /\ returned # None
    /\ codegen.options.source_map_path # None
    /\ returned[1].map # None
    /\ returned[1].map[1].mappings # <<>>

(***************************************************************************)
(* Properties of the deferred semicolon and of the indent counter          *)
(***************************************************************************)
RECURSIVE Occurrences(_, _)
Occurrences(bytes, byte) ==
    IF bytes = <<>> THEN 0
    ELSE (IF Head(bytes) = byte THEN 1 ELSE 0) + Occurrences(Tail(bytes), byte)

\* the bytes written since the entry of the call that returned
SinceEntry == SubSeq(codegen.code, Len(called.entry[1].code) + 1, Len(codegen.code))

\* `a`, then `;a` for every further statement
RECURSIVE Minified(_)
Minified(n) == IF n = 1 THEN <<"a">> ELSE Minified(n - 1) \o <<";", "a">>

\* C22: under minify, entered with needs_semicolon false, print_block_statement over
\* n >= 1 statements that each end with print_semicolon_after_statement emits n-1
\* `;`, one between each two statements, none after `{` and none before `}`; and
\* print_semicolon_if_needed emits one `;` and clears needs_semicolon when it is set,
\* and does nothing otherwise.
C22_DeferredSemicolons ==
    /\ (/\ called.op = "print_block_statement_return"
        /\ called.entry[1].options.minify
        /\ ~called.entry[1].needs_semicolon
        /\ called.arg.body # <<>>
        /\ \A i \in DOMAIN called.arg.body : called.arg.body[i] = ExpressionStatement) =>
          /\ Occurrences(SinceEntry, ";") = Len(called.arg.body) - 1
          /\ SinceEntry = <<"{">> \o Minified(Len(called.arg.body)) \o <<"}">>
    /\ called.op = "print_semicolon_if_needed" =>
          codegen = IF called.before.needs_semicolon
                    THEN [BeforeWith(<<";">>) EXCEPT !.needs_semicolon = FALSE]
                    ELSE called.before

\* the block of three statements returned under minify: `{a;a;a}`
C22_Witness ==
    /\ called.op = "print_block_statement_return"
    /\ codegen.options.minify
    /\ Len(called.arg.body) = 3
    /\ codegen.code = <<"{", "a", ";", "a", ";", "a", "}">>

\* C23: indent is never negative; print_curly_braces, print_block_statement and a
\* print_block_start / print_block_end pair return indent to the value of their
\* entry; without minify the closing `}` of a construct of several lines stands on
\* a line of its own, indented at the level of the entry; and under minify indent
\* stays 0 and no tab is emitted.
C23_IndentBalanced ==
    /\ codegen.indent >= 0
    /\ codegen.options.minify =>
          /\ codegen.indent = 0
          /\ Occurrences(codegen.code, "\t") = 0
    /\ called.op \in {"print_curly_braces_return", "print_block_statement_return",
                      "print_block_end"} =>
          codegen.indent = called.entry[1].indent
    /\ (/\ ~codegen.options.minify
        /\ \/ called.op = "print_curly_braces_return" /\ ~called.arg.single_line
           \/ called.op = "print_block_end") =>
          EndsWith(codegen.code, <<"\n">> \o Tabs(called.entry[1].indent) \o <<"}">>)

\* a block inside a block returned, without minify: its body stood at level 2 and
\* its `}` is printed after one tab, at level 1 again
C23_Witness ==
    /\ called.op = "print_curly_braces_return"
    /\ ~codegen.options.minify
    /\ called.before.indent = 2
    /\ codegen.indent = 1
    /\ called.entry[1].indent = 1
    /\ EndsWith(codegen.code, <<"\n", "\t", "}">>)

MaxTags == 2

TagNames == {"implements", "class", "constructor", "function"}

\* the tags of the JSDoc block `block` of a node, each at a span of its own
JSDoc(names, block) ==
    [i \in 1..Len(names) |->
        [kind |-> [parsed |-> names[i], span |-> <<2 * MaxTags * block + 2 * i,
                                                   2 * MaxTags * block + 2 * i + 1>>]]]

\* the JSDoc blocks a node may carry: none, one block of at most MaxTags tags, or two
\* blocks of one tag
Attachments ==
    {None}
    \cup {Some(<<JSDoc(names, 0)>>) : names \in UNION {[1..n -> TagNames] : n \in 0..MaxTags}}
    \cup {Some(<<JSDoc(<<first>>, 0), JSDoc(<<second>>, 1)>>) :
            first \in {"implements", "class"}, second \in {"implements", "class"}}

\* the paths of node kinds, and the node of each that may carry the JSDoc
Paths ==
    { [nodes |-> <<"FunctionDeclaration", "Program">>, documented |-> 1],
      [nodes |-> <<"TSDeclareFunction", "Program">>, documented |-> 1],
      [nodes |-> <<"ArrowFunctionExpression", "VariableDeclarator", "VariableDeclaration",
                   "Program">>, documented |-> 3],
      [nodes |-> <<"FunctionExpression", "ParenthesizedExpression", "VariableDeclarator",
                   "VariableDeclaration", "Program">>, documented |-> 4],
      [nodes |-> <<"ArrowFunctionExpression", "CallExpression", "VariableDeclarator",
                   "VariableDeclaration", "Program">>, documented |-> 4],
      [nodes |-> <<"FunctionExpression", "ParenthesizedExpression", "ExpressionStatement",
                   "Program">>, documented |-> 3],
      [nodes |-> <<"FunctionExpression", "MethodDefinition", "ClassBody", "Class",
                   "Program">>, documented |-> 2],
      [nodes |-> <<"Program">>, documented |-> 1] }

\* the files the rule is run on
RuleSemantics ==
    {[cfg |-> Some("cfg"), source_text |-> SourceText, directives |-> {},
      nodes |-> path.nodes,
      jsdoc |-> [i \in DOMAIN path.nodes |->
                    IF i = path.documented THEN attachment ELSE None]] :
        path \in Paths, attachment \in Attachments}

\* OxlintSettings: the preferred names of the JSDoc tags
OxlintSettings_default == [jsdoc |-> [tag_name_preference |-> [n \in {} |-> ""]]]

RuleConfigs ==
    {[env |-> OxlintConfig_default.env, settings |-> OxlintSettings_default],
     [env |-> OxlintConfig_default.env,
      settings |-> [jsdoc |-> [tag_name_preference |->
                                  [n \in {"constructor"} |-> "class"]]]]}

\* LintContext::settings
settings(self) ==
    IF "settings" \in DOMAIN self.eslint_config THEN self.eslint_config.settings
    ELSE OxlintSettings_default

\* LintContext::nodes and AstNodes::parent_node
parent_node(self, node) == IF node < Len(self.semantic.nodes) THEN Some(node + 1) ELSE None

\* AstNode::kind
kind(self, node) == self.semantic.nodes[node]

\* LintContext::jsdoc and JSDocFinder::get_all_by_node
get_all_by_node(self, node) == self.semantic.jsdoc[node]

\* JSDocPluginSettings::resolve_tag_name
resolve_tag_name(jsdoc_settings, original_name) ==
    IF original_name \in DOMAIN jsdoc_settings.tag_name_preference
    THEN jsdoc_settings.tag_name_preference[original_name]
    ELSE original_name

\* mutant: a method of a class counts as a function definition
RECURSIVE parents_loop_methods(_, _)
parents_loop_methods(self, current_node) ==
    LET parent == parent_node(self, current_node)
    IN  IF parent = None THEN None
        ELSE CASE kind(self, parent[1]) \in {"VariableDeclarator", "ParenthesizedExpression"} ->
                      parents_loop_methods(self, parent[1])
               [] kind(self, parent[1]) \in {"VariableDeclaration", "MethodDefinition"} -> parent
               [] OTHER -> None

get_function_definition_node_methods(self, node) ==
    CASE kind(self, node) = "FunctionDeclaration" -> Some(node)
      [] kind(self, node) \in {"FunctionExpression", "ArrowFunctionExpression"} ->
            parents_loop_methods(self, node)
      [] OTHER -> None

\* the loop of get_function_definition_node over the parents
RECURSIVE parents_loop(_, _)
parents_loop(self, current_node) ==
    LET parent == parent_node(self, current_node)
    IN  IF parent = None THEN None
        ELSE CASE kind(self, parent[1]) \in {"VariableDeclarator", "ParenthesizedExpression"} ->
                      parents_loop(self, parent[1])
               [] kind(self, parent[1]) = "VariableDeclaration" -> parent
               [] OTHER -> None

get_function_definition_node(self, node) ==
    CASE kind(self, node) = "FunctionDeclaration" -> Some(node)
      [] kind(self, node) \in {"FunctionExpression", "ArrowFunctionExpression"} ->
            parents_loop(self, node)
      [] OTHER -> None

\* the tags of the blocks, in the order the two loops of run visit them
RECURSIVE tags_of(_)
tags_of(jsdocs) == IF jsdocs = <<>> THEN <<>> ELSE Head(jsdocs) \o tags_of(Tail(jsdocs))

\* the loops of run over the tags: (implements_found, class_or_ctor_found)
RECURSIVE tags_loop(_, _, _)
tags_loop(tags, jsdoc_settings, found) ==
    IF tags = <<>> THEN found
    ELSE LET tag_name == Head(tags).kind.parsed
             implements_found ==
                 IF tag_name = resolve_tag_name(jsdoc_settings, "implements")
                 THEN Some(Head(tags).kind.span)
                 ELSE found.implements_found
             class_or_ctor_found ==
                 IF \/ tag_name = resolve_tag_name(jsdoc_settings, "class")
                    \/ tag_name = resolve_tag_name(jsdoc_settings, "constructor")
                 THEN TRUE
                 ELSE found.class_or_ctor_found
         IN  tags_loop(Tail(tags), jsdoc_settings,
                       [implements_found |-> implements_found,
                        class_or_ctor_found |-> class_or_ctor_found])

ImplementsOnClassesDiagnostic(span) ==
    [id |-> "implements-on-classes", severity |-> "Warning", span |-> span]

\* ImplementsOnClasses::run
run(self, node) ==
    LET definition == get_function_definition_node(self, node)
        jsdocs == IF definition = None THEN None ELSE get_all_by_node(self, definition[1])
    IN  IF jsdocs = None THEN self
        ELSE LET found == tags_loop(tags_of(jsdocs[1]), settings(self).jsdoc,
                                    [implements_found |-> None,
                                     class_or_ctor_found |-> FALSE])
             IN  IF found.implements_found # None /\ ~found.class_or_ctor_found
                 THEN diagnostic(self, ImplementsOnClassesDiagnostic(found.implements_found[1]))
                 ELSE self

\* the names of the nodes in last_call
NodeIds == <<"1", "2", "3", "4", "5">>

Run(node) ==
    /\ ctx_state = "live"
    /\ ctx.current_rule_name = "implements-on-classes"
    /\ node \in DOMAIN ctx.semantic.nodes
    /\ Len(ctx.diagnostics) < MaxReports
    /\ ctx' = run(ctx, node)
    /\ last_call' = [NoCall EXCEPT !.op = "run", !.given = NodeIds[node]]
    /\ UNCHANGED <<ctx_state, messages, reported, applied_severity>>
    /\ UNCHANGED cloned
    /\ UNCHANGED codegen_vars
    /\ UNCHANGED printer_vars

InitRule == LintIdle /\ CodegenIdle

NextRule ==
    \/ \E semantic \in RuleSemantics : New(semantic)
    \/ \E eslint_config \in RuleConfigs : WithEslintConfig(eslint_config)
    \/ \E name \in {"implements-on-classes"} : WithRuleName(name)
    \/ \E node \in DOMAIN NodeIds : Run(node)
    \/ IntoMessage

SpecRule == InitRule /\ [][NextRule]_vars

(***************************************************************************)
(* Properties of the rule implements-on-classes                            *)
(***************************************************************************)
\* the node run was called on
RunNode(call) == CHOOSE node \in DOMAIN NodeIds : NodeIds[node] = call.given

\* the node that carries the JSDoc of the function definition `node` is: the function
\* declaration itself, or the variable declaration a function or arrow expression is
\* reached from through declarators and parentheses only
DefinitionOf(semantic, node) ==
    LET nodes == semantic.nodes
        declarations ==
            {j \in (node + 1)..Len(nodes) :
                /\ nodes[j] = "VariableDeclaration"
                /\ \A k \in (node + 1)..(j - 1) :
                      nodes[k] \in {"VariableDeclarator", "ParenthesizedExpression"}}
    IN  IF nodes[node] = "FunctionDeclaration" THEN {node}
        ELSE IF nodes[node] \in {"FunctionExpression", "ArrowFunctionExpression"}
             THEN declarations
             ELSE {}

\* the tags of the JSDoc blocks of a node
TagsOf(semantic, node) ==
    IF semantic.jsdoc[node] = None THEN {}
    ELSE UNION {{semantic.jsdoc[node][1][b][i].kind : i \in DOMAIN semantic.jsdoc[node][1][b]} :
                    b \in DOMAIN semantic.jsdoc[node][1]}

\* the name the configuration prefers for a tag
Preferred(self, name) ==
    IF "settings" \in DOMAIN self.eslint_config
       /\ name \in DOMAIN self.eslint_config.settings.jsdoc.tag_name_preference
    THEN self.eslint_config.settings.jsdoc.tag_name_preference[name]
    ELSE name

ImplementsTags(self, node) ==
    UNION {{tag \in TagsOf(self.semantic, definition) :
                tag.parsed = Preferred(self, "implements")} :
            definition \in DefinitionOf(self.semantic, node)}

ClassTags(self, node) ==
    UNION {{tag \in TagsOf(self.semantic, definition) :
                tag.parsed \in {Preferred(self, "class"), Preferred(self, "constructor")}} :
            definition \in DefinitionOf(self.semantic, node)}

\* the implements tag that comes last
LastImplements(self, node) ==
    CHOOSE tag \in ImplementsTags(self, node) :
        \A other \in ImplementsTags(self, node) : other.span[1] <= tag.span[1]

C21_ClassWitness ==
    /\ last_call.op = "run"
    /\ last_call.given = "1"
    /\ ctx.semantic.nodes = <<"FunctionDeclaration", "Program">>
    /\ ctx.semantic.jsdoc[1] = Some(<<JSDoc(<<"class", "implements">>, 0)>>)
    /\ ctx.diagnostics = <<>>

(***************************************************************************)
(* A LintContext and a clone of it.  The clone is a context of its own;    *)
(* `cell` says whether its vector of diagnostics is the RefCell of the     *)
(* original ("shared") or one of its own ("own"): a report through a       *)
(* context that shares the cell is a report in both.                       *)
(***************************************************************************)
\* mutant: the diagnostics are behind a shared pointer, as semantic is
clone_sharing(self) == [ctx |-> self, cell |-> "shared"]

\* #[derive(Clone)]: the Rc fields point to the same values, the RefCell of the
\* diagnostics is cloned with the vector in it
clone(self) == [ctx |-> self, cell |-> "own"]

\* the diagnostic a rule reports at `span`, named by the number of the report
CloneDiagnostic(id, span) == [id |-> id, severity |-> "Error", span |-> span]

\* the number that names the next report
NextId == Len(reported) + (IF cloned = None THEN 0 ELSE Len(cloned[1].reported)) + 1

Clone ==
    /\ ctx_state = "live"
    /\ cloned = None
    /\ cloned' = Some([ctx |-> clone(ctx).ctx, cell |-> clone(ctx).cell, state |-> "live",
                       messages |-> <<>>, reported |-> <<>>, since |-> Len(reported)])
    /\ last_call' = [NoCall EXCEPT !.op = "clone"]
    /\ UNCHANGED <<ctx_state, ctx, messages, reported, applied_severity>>
    /\ UNCHANGED codegen_vars
    /\ UNCHANGED printer_vars

ReportThroughOriginal(span) ==
    /\ ctx_state = "live"
    /\ NextId <= MaxReports
    /\ ctx' = diagnostic(ctx, CloneDiagnostic(NextId, span))
    /\ reported' = Append(reported, Report(ctx, CloneDiagnostic(NextId, span)))
    /\ cloned' = IF cloned # None /\ cloned[1].cell = "shared"
                 THEN Some([cloned[1] EXCEPT !.ctx.diagnostics = ctx'.diagnostics])
                 ELSE cloned
    /\ last_call' = [NoCall EXCEPT !.op = "diagnostic", !.given = "Error"]
    /\ UNCHANGED <<ctx_state, messages, applied_severity>>
    /\ UNCHANGED codegen_vars
    /\ UNCHANGED printer_vars

ReportThroughClone(span) ==
    /\ cloned # None
    /\ cloned[1].state = "live"
    /\ NextId <= MaxReports
    /\ LET diagnostic_ == CloneDiagnostic(NextId, span)
           done == diagnostic(cloned[1].ctx, diagnostic_)
       IN  /\ cloned' = Some([cloned[1] EXCEPT
                                 !.ctx = done,
                                 !.reported = Append(@, Report(cloned[1].ctx, diagnostic_))])
           /\ ctx' = IF cloned[1].cell = "shared"
                     THEN [ctx EXCEPT !.diagnostics = done.diagnostics]
                     ELSE ctx
    /\ last_call' = [NoCall EXCEPT !.op = "clone.diagnostic", !.given = "Error"]
    /\ UNCHANGED <<ctx_state, messages, reported, applied_severity>>
    /\ UNCHANGED codegen_vars
    /\ UNCHANGED printer_vars

CloneWithRuleName(name) ==
    /\ cloned # None
    /\ cloned[1].state = "live"
    /\ cloned' = Some([cloned[1] EXCEPT !.ctx = with_rule_name(@, name)])
    /\ last_call' = [NoCall EXCEPT !.op = "clone.with"]
    /\ UNCHANGED <<ctx_state, ctx, messages, reported, applied_severity>>
    /\ UNCHANGED codegen_vars
    /\ UNCHANGED printer_vars

CloneIntoMessage ==
    /\ cloned # None
    /\ cloned[1].state = "live"
    /\ cloned' = Some([cloned[1] EXCEPT !.messages = into_message(cloned[1].ctx),
                                        !.state = "consumed"])
    /\ last_call' = [NoCall EXCEPT !.op = "clone.into_message"]
    /\ UNCHANGED <<ctx_state, ctx, messages, reported, applied_severity>>
    /\ UNCHANGED codegen_vars
    /\ UNCHANGED printer_vars

InitClone == LintIdle /\ CodegenIdle

NextClone ==
    \/ \E semantic \in {semantic \in Semantics : semantic.cfg # None} : New(semantic)
    \/ \E fix \in {TRUE} : WithFix(fix)
    \/ \E eslint_config \in LintConfigs \ {OxlintConfig_default} :
          WithEslintConfig(eslint_config)
    \/ \E name \in RuleNames : WithRuleName(name)
    \/ \E severity \in {"Deny"} : WithSeverity(severity)
    \/ Clone
    \/ \E span \in Spans : ReportThroughOriginal(span)
    \/ \E span \in Spans : ReportThroughClone(span)
    \/ \E name \in RuleNames : CloneWithRuleName(name)
    \/ IntoMessage
    \/ CloneIntoMessage

SpecClone == InitClone /\ [][NextClone]_vars

\* the ids of the messages of a vector
Ids(vector) == {vector[i].error.id : i \in DOMAIN vector}

\* the ids of the reports of a history
ReportIds(history) == {history[i].id : i \in DOMAIN history}

C26_FixBeforeSuppression ==
    [][last_call'.op \in {"diagnostic", "diagnostic_with_fix"} =>
          LET report == reported'[Len(reported')]
              suppressed == DisableDirectives_contains(ctx.disable_directives,
                                                       ctx.current_rule_name, report.span)
          IN  /\ (last_call'.op = "diagnostic_with_fix" /\ ctx.fix) => last_call'.invoked = 1
              /\ report.rule = ctx.current_rule_name
              /\ suppressed => ctx' = ctx
              /\ ~suppressed =>
                    /\ Len(ctx'.diagnostics) = Len(ctx.diagnostics) + 1
                    /\ ctx' = [ctx EXCEPT !.diagnostics =
                                  Append(@, ctx'.diagnostics[Len(ctx'.diagnostics)])]
                    /\ ctx'.diagnostics[Len(ctx'.diagnostics)].error =
                          [id |-> report.id, severity |-> ctx.severity, span |-> report.span]
      ]_vars

\* in fix mode the closure of a diagnostic_with_fix was invoked and the diagnostic
\* then dropped by a directive
C26_Witness ==
    /\ last_call.op = "diagnostic_with_fix"
    /\ ctx.fix
    /\ last_call.invoked = 1
    /\ InIndex(reported[Len(reported)])
    /\ ctx.diagnostics = <<>>

====
